---------------------------- MODULE Spec2Model ----------------------------
(***************************************************************************)
(* Model of crofiler's TUI processing thread (src/ui/tui/processing.rs)    *)
(* and of its C++ operator-name parsers (src/cpp/operators.rs,             *)
(* src/cpp/templates.rs).                                                  *)
(*                                                                         *)
(* Spec        : ProcessingThread::new, the public query methods, the      *)
(*               spawned closure and the worker loop, interleaved.         *)
(* WorkerSpec  : the worker loop alone, fed by a client that may queue      *)
(*               several instructions before reading any reply.            *)
(***************************************************************************)
EXTENDS Integers, Sequences, FiniteSets, TLC

\* ------------------------------------------------------------------ bounds

\* Number of public method calls the main thread makes on a ProcessingThread
MaxCalls == 3

\* Number of instructions the client of WorkerSpec queues
MaxSent == 3

\* Activity identifiers that may be named in GetDirectChildren
MaxActivityId == 2

\* ------------------------------------------------------------------- state

VARIABLES
    traceFile,            \* "good" | "bad": what ClangTrace::from_file will return
    mainPc,               \* position of the main thread
    mainPanic,            \* "none", or the reason of the main thread's panic
    procPc,               \* position of the processing thread
    lockOwner,            \* holder of the metadata mutex: "none" | "main" | "proc"
    poisoned,             \* poison flag of the metadata mutex
    metadata,             \* content of the slot: "None" | "SomeOk" | "SomeErr"
    instructions,         \* instruction channel (main -> processing thread)
    instruction_sender,   \* TRUE while the Sender<Instruction> is alive
    instruction_receiver, \* TRUE while the Receiver<Instruction> is alive
    activities,           \* activities channel (processing thread -> main)
    activities_sender,
    activities_receiver,
    strings,              \* strings channel (processing thread -> main)
    strings_sender,
    strings_receiver,
    cur,                  \* instruction the worker is handling
    pending,              \* instruction sent by the public method in progress
    fetched,              \* value returned by the last fetch
    calls,                \* number of public method calls made so far
    sent,                 \* history: every instruction sent, in order
    recvCount,            \* history: instructions the worker has received
    actLog,               \* history: every reply sent on the activities channel
    strLog,               \* history: every reply sent on the strings channel
    metaWrites,           \* history: writes to the metadata slot by the thread
    procLocks,            \* history: acquisitions of the mutex by the thread
    extractLog,           \* history: outcome of every try_extract_metadata call
    input,                \* text handed to a parser, one token per element
    parser,               \* "none", or the parser that was applied to input
    LEN,                  \* const generic LEN of the parser applied, or 0
    allow_comma,          \* const generic ALLOW_COMMA of the parser applied
    allow_greater,        \* const generic ALLOW_GREATER of the parser applied
    result,               \* what the parser returned
    str,                  \* truncate_string: its input, as runs of characters
    max_cols,             \* column budget of the call made
    build,                \* "debug" | "release": overflow checks on or off
    truncPc,              \* position inside truncate_string
    header_bytes,         \* truncate_string: u16 end of the header candidate
    trailer_start,        \* truncate_string: usize start of the trailer candidate
    last_good,            \* truncate_string: last candidate that fitted
    truncated,            \* truncate_string: its result string
    requested,            \* activity ids whose description is asked for
    called,               \* "none", or the display function that was called
    output,               \* what the display function wrote or returned
    returned              \* << "none" >>, << "Ok" >>, << "NotEnoughCols", max_cols >>

vars == << traceFile, mainPc, mainPanic, procPc, lockOwner, poisoned, metadata,
           instructions, instruction_sender, instruction_receiver,
           activities, activities_sender, activities_receiver,
           strings, strings_sender, strings_receiver,
           cur, pending, fetched, calls,
           sent, recvCount, actLog, strLog, metaWrites, procLocks, extractLog,
           input, parser, LEN, allow_comma, allow_greater, result,
           str, max_cols, build, truncPc, header_bytes, trailer_start, last_good,
           truncated, requested, called, output, returned >>

truncateVars == << str, build, truncPc, header_bytes, trailer_start, last_good,
                   truncated >>
describeVars == << requested, called, output, returned >>
displayVars == << max_cols, truncateVars, describeVars >>
parseVars == << input, parser, LEN, allow_comma, allow_greater, result >>
mutexVars == << lockOwner, poisoned, metadata >>
endVars == << instruction_sender, instruction_receiver, activities_sender,
              activities_receiver, strings_sender, strings_receiver >>
chanVars == << instructions, activities, strings >>
histVars == << sent, recvCount, actLog, strLog, metaWrites, procLocks, extractLog >>

\* ------------------------------------------------------------ instructions

ActivityIds == 1 .. MaxActivityId

NoInstruction == [kind |-> "none", arg |-> 0, n |-> 0]

\* enum Instruction; n is the rank of the instruction among those sent
Instruction(kind, arg, n) == [kind |-> kind, arg |-> arg, n |-> n]

\* What the worker computes for an instruction: the trace is fixed, so the
\* reply is determined by the instruction it answers
ReplyTo(instruction) == [to |-> instruction]

NoReply == ReplyTo(NoInstruction)

\* Channel on which the worker answers an instruction
ReplyChannelAlwaysActivities(instruction) == "activities"

ReplyChannel(instruction) ==
    IF instruction.kind = "DescribeActivities" THEN "strings" ELSE "activities"

\* Receiver::recv / Receiver::iter on a channel that holds messages: the
\* oldest message, and what stays queued
recvLast(queue) ==
    [value |-> queue[Len(queue)], rest |-> SubSeq(queue, 1, Len(queue) - 1)]

recv(queue) == [value |-> Head(queue), rest |-> Tail(queue)]

\* Receiver::recv fails, and Receiver::iter ends, only on a channel that is
\* empty and whose sender is gone
disconnectedWhenEmpty(queue, senderAlive) == queue = << >>

disconnected(queue, senderAlive) == queue = << >> /\ ~senderAlive

\* A parser's error, and its success with the input left and the value parsed
Failure == [ok |-> FALSE, rest |-> << >>, val |-> "Error"]

Success(rest, val) == [ok |-> TRUE, rest |-> rest, val |-> val]

\* No parser is running: the state of the parsers while the threads run
NoParse ==
    /\ input = << >>
    /\ parser = "none"
    /\ LEN = 0
    /\ allow_comma = FALSE
    /\ allow_greater = FALSE
    /\ result = Failure

\* truncate_string is not running
NoTruncate ==
    /\ str = << >>
    /\ build = "release"
    /\ truncPc = "none"
    /\ header_bytes = 0
    /\ trailer_start = 0
    /\ last_good = << >>
    /\ truncated = << >>

\* No activity is being displayed
NoDescribe ==
    /\ requested = << >>
    /\ called = "none"
    /\ output = ""
    /\ returned = << "none" >>

NoDisplay == max_cols = 0 /\ NoTruncate /\ NoDescribe

\* ------------------------------------------------------------------- init

Init ==
    /\ NoParse
    /\ NoDisplay
    /\ traceFile \in {"good", "bad"}
    /\ mainPc = "new_spawn"
    /\ mainPanic = "none"
    /\ procPc = "unspawned"
    /\ lockOwner = "none"
    /\ poisoned = FALSE
    /\ metadata = "None"
    /\ instructions = << >>
    /\ instruction_sender = TRUE
    /\ instruction_receiver = TRUE
    /\ activities = << >>
    /\ activities_sender = TRUE
    /\ activities_receiver = TRUE
    /\ strings = << >>
    /\ strings_sender = TRUE
    /\ strings_receiver = TRUE
    /\ cur = NoInstruction
    /\ pending = NoInstruction
    /\ fetched = NoReply
    /\ calls = 0
    /\ sent = << >>
    /\ recvCount = 0
    /\ actLog = << >>
    /\ strLog = << >>
    /\ metaWrites = 0
    /\ procLocks = 0
    /\ extractLog = << >>

\* ------------------------------------------------- ProcessingThread::new

\* thread::spawn
Spawn ==
    /\ UNCHANGED << parseVars, displayVars >>
    /\ mainPc = "new_spawn"
    /\ mainPc' = "new_try_lock"
    /\ procPc' = "lock"
    /\ UNCHANGED << traceFile, mainPanic, mutexVars, chanVars, endVars, cur,
                    pending, fetched, calls, histVars >>

\* metadata.try_lock().expect("Processing thread has crashed")
\* expect panics on every Err of try_lock: WouldBlock as well as Poisoned
NewTryLock ==
    /\ UNCHANGED << parseVars, displayVars >>
    /\ mainPc = "new_try_lock"
    /\ IF lockOwner # "none"
       THEN /\ mainPanic' = "WouldBlock"
            /\ mainPc' = "new_unwind"
            /\ UNCHANGED lockOwner
       ELSE IF poisoned
       THEN /\ mainPanic' = "Poisoned"
            /\ mainPc' = "new_unwind"
            /\ UNCHANGED lockOwner
       ELSE /\ lockOwner' = "main"
            /\ mainPc' = "new_is_none"
            /\ UNCHANGED mainPanic
    /\ UNCHANGED << traceFile, procPc, poisoned, metadata, chanVars, endVars,
                    cur, pending, fetched, calls, histVars >>

\* .is_none(), the guard dropped at the end of the loop condition, then
\* either thread::sleep and another turn, or Self { .. }
NewIsNone ==
    /\ UNCHANGED << parseVars, displayVars >>
    /\ mainPc = "new_is_none"
    /\ lockOwner' = "none"
    /\ mainPc' = IF metadata = "None" THEN "new_try_lock" ELSE "idle"
    /\ UNCHANGED << traceFile, mainPanic, procPc, poisoned, metadata, chanVars,
                    endVars, cur, pending, fetched, calls, histVars >>

\* A panic inside new unwinds its locals in reverse order of declaration:
\* strings_receiver, activities_receiver, ...
NewUnwindReceivers ==
    /\ UNCHANGED << parseVars, displayVars >>
    /\ mainPc = "new_unwind"
    /\ activities_receiver' = FALSE
    /\ strings_receiver' = FALSE
    /\ mainPc' = "new_unwind_sender"
    /\ UNCHANGED << traceFile, mainPanic, procPc, mutexVars, chanVars,
                    instruction_sender, instruction_receiver,
                    activities_sender, strings_sender,
                    cur, pending, fetched, calls, histVars >>

\* ... then instruction_sender
NewUnwindSender ==
    /\ UNCHANGED << parseVars, displayVars >>
    /\ mainPc = "new_unwind_sender"
    /\ instruction_sender' = FALSE
    /\ mainPc' = "done"
    /\ UNCHANGED << traceFile, mainPanic, procPc, mutexVars, chanVars,
                    instruction_receiver, activities_sender, activities_receiver,
                    strings_sender, strings_receiver,
                    cur, pending, fetched, calls, histVars >>

\* --------------------------------------------------------- spawned closure

\* The closure's captured channel ends are dropped when the thread ends
ThreadEnds(pc) ==
    /\ procPc' = pc
    /\ instruction_receiver' = FALSE
    /\ activities_sender' = FALSE
    /\ strings_sender' = FALSE

\* metadata2.lock().expect("Main thread has crashed")
ProcLock ==
    /\ UNCHANGED << parseVars, displayVars >>
    /\ procPc = "lock"
    /\ lockOwner = "none"
    /\ IF poisoned
       THEN /\ ThreadEnds("panicked")
            /\ UNCHANGED << lockOwner, procLocks >>
       ELSE /\ lockOwner' = "proc"
            /\ procLocks' = procLocks + 1
            /\ procPc' = "from_file"
            /\ UNCHANGED << instruction_receiver, activities_sender, strings_sender >>
    /\ UNCHANGED << traceFile, mainPc, mainPanic, poisoned, metadata, chanVars,
                    instruction_sender, activities_receiver, strings_receiver,
                    cur, pending, fetched, calls,
                    sent, recvCount, actLog, strLog, metaWrites, extractLog >>

\* match ClangTrace::from_file(path): the slot is written under the lock; on
\* Err the thread panics while it holds the guard, which poisons the mutex
ProcFromFile ==
    /\ UNCHANGED << parseVars, displayVars >>
    /\ procPc = "from_file"
    /\ lockOwner' = "none"
    /\ metaWrites' = metaWrites + 1
    /\ IF traceFile = "good"
       THEN /\ metadata' = "SomeOk"
            /\ procPc' = "worker_recv"
            /\ UNCHANGED << poisoned, instruction_receiver, activities_sender,
                            strings_sender >>
       ELSE /\ metadata' = "SomeErr"
            /\ poisoned' = TRUE
            /\ ThreadEnds("panicked")
    /\ UNCHANGED << traceFile, mainPc, mainPanic, chanVars,
                    instruction_sender, activities_receiver, strings_receiver,
                    cur, pending, fetched, calls,
                    sent, recvCount, actLog, strLog, procLocks, extractLog >>

\* ------------------------------------------------------------------ worker

\* for instruction in instructions.iter(): blocks while the channel is empty
\* and its sender alive, ends the loop once it is empty and the sender dropped
WorkerRecv ==
    /\ UNCHANGED << parseVars, displayVars >>
    /\ procPc = "worker_recv"
    /\ instructions # << >> \/ disconnected(instructions, instruction_sender)
    /\ IF instructions # << >>
       THEN /\ cur' = recv(instructions).value
            /\ instructions' = recv(instructions).rest
            /\ recvCount' = recvCount + 1
            /\ procPc' = "worker_reply"
            /\ UNCHANGED << instruction_receiver, activities_sender, strings_sender >>
       ELSE /\ ThreadEnds("returned")
            /\ UNCHANGED << cur, instructions, recvCount >>
    /\ UNCHANGED << traceFile, mainPc, mainPanic, mutexVars, activities, strings,
                    instruction_sender, activities_receiver, strings_receiver,
                    pending, fetched, calls,
                    sent, actLog, strLog, metaWrites, procLocks, extractLog >>

\* match instruction { .. => reply(&channel, data) }
\* sender.send(data).expect("Main thread has likely crashed")
WorkerReply ==
    /\ UNCHANGED << parseVars, displayVars >>
    /\ procPc = "worker_reply"
    /\ IF ReplyChannel(cur) = "activities"
       THEN IF activities_receiver
            THEN /\ activities' = Append(activities, ReplyTo(cur))
                 /\ actLog' = Append(actLog, ReplyTo(cur))
                 /\ procPc' = "worker_recv"
                 /\ UNCHANGED << strings, strLog, instruction_receiver,
                                 activities_sender, strings_sender >>
            ELSE /\ ThreadEnds("panicked")
                 /\ UNCHANGED << activities, strings, actLog, strLog >>
       ELSE IF strings_receiver
            THEN /\ strings' = Append(strings, ReplyTo(cur))
                 /\ strLog' = Append(strLog, ReplyTo(cur))
                 /\ procPc' = "worker_recv"
                 /\ UNCHANGED << activities, actLog, instruction_receiver,
                                 activities_sender, strings_sender >>
            ELSE /\ ThreadEnds("panicked")
                 /\ UNCHANGED << activities, strings, actLog, strLog >>
    /\ UNCHANGED << traceFile, mainPc, mainPanic, mutexVars, instructions,
                    instruction_sender, activities_receiver, strings_receiver,
                    cur, pending, fetched, calls,
                    sent, recvCount, metaWrites, procLocks, extractLog >>

\* ------------------------------------------------- public query methods

\* Option::take(): the value left in the slot
takeLeavesValue(slot) == slot

take(slot) == "None"

\* What try_extract_metadata does for a state of the mutex and of its slot:
\* the value it returns, or "panic"
try_extract_metadata(owner, poison, slot) ==
    IF owner # "none" THEN "None"
    ELSE IF poison THEN "panic"
    ELSE IF slot # "None" THEN slot
    ELSE "panic"

\* A panic of the main thread after new has returned: the ProcessingThread
\* is dropped while the stack unwinds
MainPanics(reason) ==
    /\ mainPanic' = reason
    /\ mainPc' = "drop"

\* pub fn try_extract_metadata(&mut self)
TryExtractMetadata ==
    /\ UNCHANGED << parseVars, displayVars >>
    /\ mainPc = "idle"
    /\ calls < MaxCalls
    /\ calls' = calls + 1
    /\ extractLog' =
         Append(extractLog, try_extract_metadata(lockOwner, poisoned, metadata))
    /\ IF lockOwner # "none"
       THEN \* Err(TryLockError::WouldBlock) => None
            /\ UNCHANGED << mainPc, mainPanic, mutexVars >>
       ELSE IF poisoned
       THEN \* Err(TryLockError::Poisoned(e)) => panic!
            /\ MainPanics("Poisoned")
            /\ UNCHANGED mutexVars
       ELSE IF metadata # "None"
       THEN \* opt @ Some(_) => opt
            /\ metadata' = take(metadata)
            /\ UNCHANGED << mainPc, mainPanic, lockOwner, poisoned >>
       ELSE \* None => panic!, with the guard held
            /\ MainPanics("AlreadyExtracted")
            /\ poisoned' = TRUE
            /\ UNCHANGED << lockOwner, metadata >>
    /\ UNCHANGED << traceFile, procPc, chanVars, endVars, cur, pending, fetched,
                    sent, recvCount, actLog, strLog, metaWrites, procLocks >>

\* A query whose caller does not wait for the reply (the asynchronous
\* requests of the TODO at processing.rs:116)
query_without_fetch(kind, arg) ==
    /\ UNCHANGED << parseVars, displayVars >>
    /\ mainPc = "idle"
    /\ calls < MaxCalls
    /\ calls' = calls + 1
    /\ LET instruction == Instruction(kind, arg, Len(sent) + 1) IN
       IF instruction_receiver
       THEN /\ instructions' = Append(instructions, instruction)
            /\ sent' = Append(sent, instruction)
            /\ pending' = instruction
            /\ UNCHANGED << mainPc, mainPanic >>
       ELSE /\ MainPanics("SendFailed")
            /\ UNCHANGED << instructions, sent, pending >>
    /\ UNCHANGED << traceFile, procPc, mutexVars, activities, strings, endVars,
                    cur, fetched,
                    recvCount, actLog, strLog, metaWrites, procLocks, extractLog >>

\* fn query(&self, instruction):
\* self.instruction_sender.send(instruction).expect(..)
query(kind, arg) ==
    /\ UNCHANGED << parseVars, displayVars >>
    /\ mainPc = "idle"
    /\ calls < MaxCalls
    /\ calls' = calls + 1
    /\ LET instruction == Instruction(kind, arg, Len(sent) + 1) IN
       IF instruction_receiver
       THEN /\ instructions' = Append(instructions, instruction)
            /\ sent' = Append(sent, instruction)
            /\ pending' = instruction
            /\ mainPc' = "fetch"
            /\ UNCHANGED mainPanic
       ELSE /\ MainPanics("SendFailed")
            /\ UNCHANGED << instructions, sent, pending >>
    /\ UNCHANGED << traceFile, procPc, mutexVars, activities, strings, endVars,
                    cur, fetched,
                    recvCount, actLog, strLog, metaWrites, procLocks, extractLog >>

\* pub fn get_root_activities(&self): the query half
GetRootActivities == query("GetRootActivities", 0)

\* pub fn get_direct_children(&self, id): the query half
GetDirectChildren == \E id \in ActivityIds : query("GetDirectChildren", id)

\* pub fn describe_activities(&self, activities, max_cols): the query half
DescribeActivities == \E id \in ActivityIds : query("DescribeActivities", id)

\* Receiver each public method fetches from
FetchChannel(kind) ==
    IF kind = "DescribeActivities" THEN "strings" ELSE "activities"

\* fn fetch(receiver): receiver.recv().expect(..); blocks while the channel is
\* empty and its sender alive
Fetch ==
    /\ UNCHANGED << parseVars, displayVars >>
    /\ mainPc = "fetch"
    /\ IF FetchChannel(pending.kind) = "activities"
       THEN /\ activities # << >> \/ disconnected(activities, activities_sender)
            /\ IF activities # << >>
               THEN /\ fetched' = recv(activities).value
                    /\ activities' = recv(activities).rest
                    /\ mainPc' = "idle"
                    /\ UNCHANGED mainPanic
               ELSE /\ MainPanics("RecvFailed")
                    /\ UNCHANGED << fetched, activities >>
            /\ UNCHANGED strings
       ELSE /\ strings # << >> \/ disconnected(strings, strings_sender)
            /\ IF strings # << >>
               THEN /\ fetched' = recv(strings).value
                    /\ strings' = recv(strings).rest
                    /\ mainPc' = "idle"
                    /\ UNCHANGED mainPanic
               ELSE /\ MainPanics("RecvFailed")
                    /\ UNCHANGED << fetched, strings >>
            /\ UNCHANGED activities
    /\ UNCHANGED << traceFile, procPc, mutexVars, instructions, endVars, cur,
                    pending, calls, histVars >>

\* The owner of the ProcessingThread lets it go out of scope
Drop ==
    /\ UNCHANGED << parseVars, displayVars >>
    /\ mainPc = "idle"
    /\ mainPc' = "drop"
    /\ UNCHANGED << traceFile, mainPanic, procPc, mutexVars, chanVars, endVars,
                    cur, pending, fetched, calls, histVars >>

\* Fields are dropped in declaration order: handle, metadata,
\* instruction_sender, ...
DropInstructionSender ==
    /\ UNCHANGED << parseVars, displayVars >>
    /\ mainPc = "drop"
    /\ instruction_sender' = FALSE
    /\ mainPc' = "drop_receivers"
    /\ UNCHANGED << traceFile, mainPanic, procPc, mutexVars, chanVars,
                    instruction_receiver, activities_sender, activities_receiver,
                    strings_sender, strings_receiver,
                    cur, pending, fetched, calls, histVars >>

\* ... activities_receiver, strings_receiver
DropReceivers ==
    /\ UNCHANGED << parseVars, displayVars >>
    /\ mainPc = "drop_receivers"
    /\ activities_receiver' = FALSE
    /\ strings_receiver' = FALSE
    /\ mainPc' = "done"
    /\ UNCHANGED << traceFile, mainPanic, procPc, mutexVars, chanVars,
                    instruction_sender, instruction_receiver,
                    activities_sender, strings_sender,
                    cur, pending, fetched, calls, histVars >>

\* ------------------------------------------------------------ specification

MainStep ==
    \/ Spawn
    \/ NewTryLock
    \/ NewIsNone
    \/ NewUnwindReceivers
    \/ NewUnwindSender
    \/ TryExtractMetadata
    \/ GetRootActivities
    \/ GetDirectChildren
    \/ DescribeActivities
    \/ Fetch
    \/ Drop
    \/ DropInstructionSender
    \/ DropReceivers

ProcStep ==
    \/ ProcLock
    \/ ProcFromFile
    \/ WorkerRecv
    \/ WorkerReply

Next == MainStep \/ ProcStep

Spec == Init /\ [][Next]_vars

\* The operating system schedules both threads: a thread that can take a step
\* eventually takes one
FairSpec == Spec /\ WF_vars(ProcStep) /\ WF_vars(Fetch)

\* ------------------------------------------------ the worker loop alone

\* worker() is entered with a loaded trace and three fresh channels; its
\* client holds the other ends
WorkerInit ==
    /\ NoParse
    /\ NoDisplay
    /\ traceFile = "good"
    /\ mainPc = "client"
    /\ mainPanic = "none"
    /\ procPc = "worker_recv"
    /\ lockOwner = "none"
    /\ poisoned = FALSE
    /\ metadata = "SomeOk"
    /\ instructions = << >>
    /\ instruction_sender = TRUE
    /\ instruction_receiver = TRUE
    /\ activities = << >>
    /\ activities_sender = TRUE
    /\ activities_receiver = TRUE
    /\ strings = << >>
    /\ strings_sender = TRUE
    /\ strings_receiver = TRUE
    /\ cur = NoInstruction
    /\ pending = NoInstruction
    /\ fetched = NoReply
    /\ calls = 0
    /\ sent = << >>
    /\ recvCount = 0
    /\ actLog = << >>
    /\ strLog = << >>
    /\ metaWrites = 1
    /\ procLocks = 1
    /\ extractLog = << >>

\* The client sends an instruction without waiting for earlier replies
ClientSend ==
    /\ UNCHANGED << parseVars, displayVars >>
    /\ mainPc = "client"
    /\ Len(sent) < MaxSent
    /\ \E kind \in {"GetRootActivities", "GetDirectChildren", "DescribeActivities"} :
       \E arg \in ActivityIds :
          LET instruction ==
                Instruction(kind, IF kind = "GetRootActivities" THEN 0 ELSE arg,
                            Len(sent) + 1) IN
          /\ instructions' = Append(instructions, instruction)
          /\ sent' = Append(sent, instruction)
    /\ UNCHANGED << traceFile, mainPc, mainPanic, procPc, mutexVars, activities,
                    strings, endVars, cur, pending, fetched, calls,
                    recvCount, actLog, strLog, metaWrites, procLocks, extractLog >>

\* The client takes the oldest reply of the activities channel
ClientRecvActivities ==
    /\ UNCHANGED << parseVars, displayVars >>
    /\ mainPc = "client"
    /\ activities # << >>
    /\ fetched' = recv(activities).value
    /\ activities' = recv(activities).rest
    /\ UNCHANGED << traceFile, mainPc, mainPanic, procPc, mutexVars, instructions,
                    strings, endVars, cur, pending, calls, histVars >>

\* The client takes the oldest reply of the strings channel
ClientRecvStrings ==
    /\ UNCHANGED << parseVars, displayVars >>
    /\ mainPc = "client"
    /\ strings # << >>
    /\ fetched' = recv(strings).value
    /\ strings' = recv(strings).rest
    /\ UNCHANGED << traceFile, mainPc, mainPanic, procPc, mutexVars, instructions,
                    activities, endVars, cur, pending, calls, histVars >>

\* The client hangs up: the sender is dropped first, as in ProcessingThread
ClientHangsUp ==
    /\ UNCHANGED << parseVars, displayVars >>
    /\ mainPc = "client"
    /\ mainPc' = "drop"
    /\ UNCHANGED << traceFile, mainPanic, procPc, mutexVars, chanVars, endVars,
                    cur, pending, fetched, calls, histVars >>

WorkerNext ==
    \/ ClientSend
    \/ ClientRecvActivities
    \/ ClientRecvStrings
    \/ ClientHangsUp
    \/ DropInstructionSender
    \/ DropReceivers
    \/ WorkerRecv
    \/ WorkerReply

WorkerSpec == WorkerInit /\ [][WorkerNext]_vars

\* ------------------------------------------------------ parser primitives

\* enum Symbol, by the character that spells it
Symbols == {"+", "-", "*", "/", "%", "^", "&", "|", "~", "!", "=", "<", ">", ","}

SymbolOf(c) ==
    CASE c = "+" -> "AddPlus"
      [] c = "-" -> "SubNeg"
      [] c = "*" -> "MulDeref"
      [] c = "/" -> "Div"
      [] c = "%" -> "Mod"
      [] c = "^" -> "Xor"
      [] c = "&" -> "AndRef"
      [] c = "|" -> "Or"
      [] c = "~" -> "BitNot"
      [] c = "!" -> "Not"
      [] c = "=" -> "AssignEq"
      [] c = "<" -> "Less"
      [] c = ">" -> "Greater"
      [] c = "," -> "Comma"

\* Option
None == << "None" >>

Some(x) == << "Some", x >>

\* A panic of the parser (unreachable!(), panic!()): not a parse error
Panic == [ok |-> FALSE, rest |-> << >>, val |-> "Panic"]

IsPanic(r) == ~r.ok /\ r.val = "Panic"

\* enum Operator
Basic(sym, twice, equal) ==
    [op |-> "Basic", symbol |-> sym, twice |-> twice, equal |-> equal]

Deref(star) == [op |-> "Deref", star |-> star]

Spaceship == [op |-> "Spaceship"]

CallIndex(is_index) == [op |-> "CallIndex", is_index |-> is_index]

CustomLiteral(identifier) == [op |-> "CustomLiteral", identifier |-> identifier]

NewDelete(is_delete, array) ==
    [op |-> "NewDelete", is_delete |-> is_delete, array |-> array]

CoAwait == [op |-> "CoAwait"]

Conversion(ty) == [op |-> "Conversion", ty |-> ty]

IsPrefix(p, s) == Len(p) <= Len(s) /\ SubSeq(s, 1, Len(p)) = p

Drop1(s, k) == SubSeq(s, k + 1, Len(s))

\* nom_supreme tag(t)
tag(t, s) == IF IsPrefix(t, s) THEN Success(Drop1(s, Len(t)), t) ELSE Failure

\* nom char(c)
char(c, s) == tag(<< c >>, s)

\* nom space0: the input after its leading spaces
RECURSIVE space0(_)
space0(s) == IF s # << >> /\ Head(s) = " " THEN space0(Tail(s)) ELSE s

\* fn symbol(s): anychar mapped through the table of symbols
symbol(s) ==
    IF s # << >> /\ Head(s) \in Symbols
    THEN Success(Tail(s), SymbolOf(Head(s)))
    ELSE Failure

\* Word tokens: a letter of an identifier, or a whole keyword
Letters ==
    {"T", "_", "a", "m", "n", "r", "s", "t", "u", "U", "l", "L", "z", "Z"}

Keywords ==
    {"void", "operator", "new", "delete", "co_await", "const", "volatile",
     "typename", "class", "struct", "enum", "union", "noexcept"}

RECURSIVE WordLen(_)
WordLen(s) ==
    IF s # << >> /\ Head(s) \in Letters \cup Keywords
    THEN 1 + WordLen(Tail(s))
    ELSE 0

\* atoms::identifier: a run of word tokens that is not a keyword
identifier(s) ==
    LET n == WordLen(s) IN
    IF n = 0 \/ (n = 1 /\ Head(s) \in Keywords)
    THEN Failure
    ELSE Success(Drop1(s, n), SubSeq(s, 1, n))

\* atoms::keyword(kw): the keyword, not followed by more of an identifier
keyword(kw, s) ==
    IF WordLen(s) = 1 /\ Head(s) = kw THEN Success(Tail(s), kw) ELSE Failure

\* ------------------------------------------------ arithmetic_or_comparison

\* The match of the two-symbol operator; None is the parse error of map_opt
decode2EqualLast(a, b) ==
    IF a = b THEN Some(Basic(a, TRUE, FALSE))
    ELSE IF b = "AssignEq" THEN Some(Basic(a, FALSE, TRUE))
    ELSE IF a = "SubNeg" /\ b = "Greater" THEN Some(Deref(FALSE))
    ELSE None

decode2(a, b) ==
    IF b = "AssignEq" THEN Some(Basic(a, FALSE, TRUE))
    ELSE IF a = b THEN Some(Basic(a, TRUE, FALSE))
    ELSE IF a = "SubNeg" /\ b = "Greater" THEN Some(Deref(FALSE))
    ELSE None

\* The match of the three-symbol operator
decode3(a, b, c) ==
    IF c = "AssignEq" /\ a = b THEN Some(Basic(a, TRUE, TRUE))
    ELSE IF a = "SubNeg" /\ b = "Greater" /\ c = "MulDeref" THEN Some(Deref(TRUE))
    ELSE IF a = "Less" /\ b = "AssignEq" /\ c = "Greater" THEN Some(Spaceship)
    ELSE None

\* map_opt(parser, f): the tail of a parse whose value f maps to Some
MapOpt(rest, opt) == IF opt = None THEN Failure ELSE Success(rest, opt[2])

\* fn arithmetic_or_comparison<const LEN: usize>(s)
arithmetic_or_comparison(len, s) ==
    LET s1 == symbol(s)
        s2 == IF s1.ok THEN symbol(s1.rest) ELSE Failure
        s3 == IF s2.ok THEN symbol(s2.rest) ELSE Failure
    IN CASE len = 1 ->
              IF s1.ok THEN Success(s1.rest, Basic(s1.val, FALSE, FALSE)) ELSE Failure
         [] len = 2 ->
              IF s2.ok THEN MapOpt(s2.rest, decode2(s1.val, s2.val)) ELSE Failure
         [] len = 3 ->
              IF s3.ok THEN MapOpt(s3.rest, decode3(s1.val, s2.val, s3.val)) ELSE Failure
         [] OTHER -> Panic

\* ------------------------------------------------------ keyword operators

\* fn call_or_index(s)
call_or_index(s) ==
    IF IsPrefix(<< "(", ")" >>, s) THEN Success(Drop1(s, 2), CallIndex(FALSE))
    ELSE IF IsPrefix(<< "[", "]" >>, s) THEN Success(Drop1(s, 2), CallIndex(TRUE))
    ELSE Failure

\* fn custom_literal(s)
custom_literal(s) ==
    LET quotes == tag(<< "\"", "\"" >>, s)
        name == IF quotes.ok THEN identifier(space0(quotes.rest)) ELSE Failure
    IN IF name.ok THEN Success(name.rest, CustomLiteral(name.val)) ELSE Failure

\* fn new_or_delete(s)
new_or_delete(s) ==
    LET new == keyword("new", s)
        delete == keyword("delete", s)
        kw == IF new.ok THEN new ELSE delete
        array == IF kw.ok THEN tag(<< "[", "]" >>, kw.rest) ELSE Failure
    IN IF ~kw.ok THEN Failure
       ELSE Success(IF array.ok THEN array.rest ELSE kw.rest,
                    NewDelete(delete.ok /\ ~new.ok, array.ok))

\* fn co_await(s)
co_await(s) ==
    LET kw == keyword("co_await", s) IN
    IF kw.ok THEN Success(kw.rest, CoAwait) ELSE Failure

\* ------------------------------------------------------ binary_expr_middle

\* The verify closure of arith1: "true", "false" or "unreachable"
verify1(op, ALLOW_COMMA, ALLOW_GREATER) ==
    IF op.op = "Basic" /\ ~op.twice /\ ~op.equal
    THEN CASE op.symbol \in {"BitNot", "Not"} -> "false"
           [] op.symbol = "Comma" -> IF ALLOW_COMMA THEN "true" ELSE "false"
           [] op.symbol = "Greater" -> IF ALLOW_GREATER THEN "true" ELSE "false"
           [] OTHER -> "true"
    ELSE "unreachable"

\* The verify closure of arith2
verify2(op, ALLOW_GREATER) ==
    IF op.op = "Basic" /\ op.twice /\ ~op.equal
    THEN CASE op.symbol \in {"AddPlus", "SubNeg"} -> "false"
           [] op.symbol \in {"AndRef", "Or", "AssignEq", "Less"} -> "true"
           [] op.symbol = "Greater" -> IF ALLOW_GREATER THEN "true" ELSE "false"
           [] OTHER -> "unreachable"
    ELSE "true"

\* ParserExt::verify
Verify(r, verdict) ==
    IF verdict = "unreachable" THEN Panic
    ELSE IF verdict = "true" THEN r
    ELSE Failure

\* pub fn binary_expr_middle<const ALLOW_COMMA: bool, const ALLOW_GREATER: bool>(s)
binary_expr_middle(ALLOW_COMMA, ALLOW_GREATER, s) ==
    LET a3 == arithmetic_or_comparison(3, s)
        a2 == arithmetic_or_comparison(2, s)
        a1 == arithmetic_or_comparison(1, s)
        arith2 == IF a2.ok THEN Verify(a2, verify2(a2.val, ALLOW_GREATER)) ELSE a2
        arith1 == IF a1.ok THEN Verify(a1, verify1(a1.val, ALLOW_COMMA, ALLOW_GREATER))
                  ELSE a1
    IN IF a3.ok THEN a3
       ELSE IF arith2.ok \/ IsPanic(arith2) THEN arith2
       ELSE arith1

\* ------------------------------------------------------------ combinators
\* Each takes the results of the parsers it combines; a later parser is
\* given the rest of an earlier one by the caller.

\* Parser::or: the second parser runs on the error of the first, not on
\* its panic
Or(first, second) ==
    IF first.ok \/ IsPanic(first) THEN first ELSE second

\* first.and(opt(second)), second being the result on the rest of first
AndOpt(first, second) ==
    IF ~first.ok THEN first
    ELSE IF IsPanic(second) THEN Panic
    ELSE IF second.ok THEN Success(second.rest, << first.val, Some(second.val) >>)
    ELSE Success(first.rest, << first.val, None >>)

\* Parser::map to a variant that holds the output
Tagged(variant, r) ==
    IF r.ok THEN Success(r.rest, << variant, r.val >>) ELSE r

\* Parser::map to Operator::Conversion
ToConversion(ty) ==
    IF ty.ok THEN Success(ty.rest, Conversion(ty.val)) ELSE ty

\* terminated(_, space0)
TerminatedSpace0(r) ==
    IF r.ok THEN Success(space0(r.rest), r.val) ELSE r

\* terminated(_, space1)
TerminatedSpace1(r) ==
    IF r.ok /\ (r.rest = << >> \/ Head(r.rest) # " ") THEN Failure
    ELSE TerminatedSpace0(r)

\* terminated(_, char(c))
TerminatedChar(r, c) ==
    IF r.ok /\ ~char(c, r.rest).ok THEN Failure
    ELSE IF r.ok THEN Success(Tail(r.rest), r.val)
    ELSE r

\* ------------------------------------- types, values, template parameters

RECURSIVE type_like(_)
RECURSIVE value_like(_)
RECURSIVE value_atom(_)
RECURSIVE template_parameters(_)
RECURSIVE separated_list0(_, _)
RECURSIVE declarators(_, _)

\* let increment_decrement, in unary_expr_prefix
increment_decrement(s) ==
    IF Len(s) >= 2 /\ s[1] = s[2] /\ s[1] \in {"+", "-"}
    THEN Success(Drop1(s, 2), Basic(SymbolOf(s[1]), TRUE, FALSE))
    ELSE Failure

\* let unary_symbol, in unary_expr_prefix
unary_symbol(s) ==
    IF s # << >> /\ Head(s) \in {"+", "-", "*", "&", "~", "!"}
    THEN Success(Tail(s), Basic(SymbolOf(Head(s)), FALSE, FALSE))
    ELSE Failure

\* let cast, in unary_expr_prefix
cast(s) ==
    IF char("(", s).ok THEN ToConversion(TerminatedChar(type_like(Tail(s)), ")"))
    ELSE Failure

\* let delete, in unary_expr_prefix
delete(s) ==
    IF new_or_delete(s).ok /\ new_or_delete(s).val.is_delete
    THEN new_or_delete(s)
    ELSE Failure

\* unary_expr_prefix that tries the single symbol before the doubled one
unary_expr_prefix_symbol_first(s) ==
    Or(TerminatedSpace0(Or(unary_symbol(s), increment_decrement(s))),
       Or(TerminatedSpace1(Or(co_await(s), delete(s))),
          TerminatedSpace0(cast(s))))

\* pub fn unary_expr_prefix(s)
unary_expr_prefix(s) ==
    Or(TerminatedSpace0(Or(increment_decrement(s), unary_symbol(s))),
       Or(TerminatedSpace1(Or(co_await(s), delete(s))),
          TerminatedSpace0(cast(s))))

\* scopes::id_expression, without scopes: an identifier and its optional
\* template parameters
id_expression(s) ==
    IF identifier(s).ok
    THEN AndOpt(identifier(s), template_parameters(identifier(s).rest))
    ELSE Failure

\* The pointer and reference declarators that follow a type specifier
declarators(s, acc) ==
    IF IsPrefix(<< "&", "&" >>, space0(s))
    THEN declarators(Drop1(space0(s), 2), Append(acc, "RValueReference"))
    ELSE IF IsPrefix(<< "&" >>, space0(s))
    THEN declarators(Tail(space0(s)), Append(acc, "LValueReference"))
    ELSE IF IsPrefix(<< "*" >>, space0(s))
    THEN declarators(Tail(space0(s)), Append(acc, "Pointer"))
    ELSE Success(s, acc)

\* The declarators that follow the simple type
with_declarators(simple) ==
    IF simple.ok
    THEN Success(declarators(simple.rest, << >>).rest,
                 [simple_type |-> simple.val,
                  declarators |-> declarators(simple.rest, << >>).val])
    ELSE simple

\* types::type_like: a legacy name or an id-expression, then declarators
type_like(s) ==
    with_declarators(Or(Tagged("LegacyName", keyword("void", s)),
                        Tagged("IdExpression", id_expression(s))))

\* The operand that a prefix operator applies to
unary_op(prefix, operand) ==
    IF operand.ok
    THEN Success(operand.rest, << "UnaryOp", prefix.val, operand.val >>)
    ELSE operand

\* An operand, given the result of unary_expr_prefix on the same input
prefixed_atom(prefix, s) ==
    IF IsPanic(prefix) THEN Panic
    ELSE IF prefix.ok THEN unary_op(prefix, value_atom(prefix.rest))
    ELSE Tagged("IdExpression", id_expression(s))

\* An operand of a value: prefix operators applied to an id-expression
value_atom(s) == prefixed_atom(unary_expr_prefix(s), s)

\* The value of a binary operator, its left operand and its right operand
binary_op(lhs, middle, rhs) ==
    IF IsPanic(rhs) THEN Panic
    ELSE IF rhs.ok
    THEN Success(rhs.rest, << "BinaryOp", middle.val, lhs.val, rhs.val >>)
    ELSE lhs

\* The right operand that follows a binary operator, if both are there
binary_rhs(lhs, middle) ==
    IF IsPanic(middle) THEN Panic
    ELSE IF middle.ok THEN binary_op(lhs, middle, value_like(space0(middle.rest)))
    ELSE lhs

\* The binary operator that may follow the left operand
binary_tail(lhs) ==
    IF lhs.ok
    THEN binary_rhs(lhs, binary_expr_middle(FALSE, FALSE, space0(lhs.rest)))
    ELSE lhs

\* values::value_like, in a template parameter list: operands joined by
\* binary_expr_middle::<false, false>
value_like(s) == binary_tail(value_atom(s))

\* fn template_parameter(s): type_like.or(value_like)
template_parameter(s) ==
    Or(Tagged("TypeLike", type_like(s)), Tagged("ValueLike", value_like(s)))

\* The list acc and the parameter that follows it, or acc alone
list_more(elem, s, acc) ==
    IF IsPanic(elem) THEN Panic
    ELSE IF elem.ok THEN separated_list0(elem.rest, Append(acc, elem.val))
    ELSE Success(s, acc)

\* nom separated_list0(char(',').and(space0), template_parameter), resumed
\* after the parameters acc: a separator that no parameter follows is left
\* unconsumed
separated_list0(s, acc) ==
    IF acc # << >> /\ ~char(",", s).ok THEN Success(s, acc)
    ELSE list_more(template_parameter(IF acc = << >> THEN s
                                      ELSE space0(Tail(s))), s, acc)

\* The end of the parameter list of s, and no other form of parameters
close_parameters_only(arguments, s) ==
    IF IsPanic(arguments) THEN Panic
    ELSE IF arguments.ok /\ char(">", space0(arguments.rest)).ok
    THEN Success(Tail(space0(arguments.rest)), Some(arguments.val))
    ELSE Failure

\* The end of the parameter list of s, or else the tag "<, void>"
close_parameters(arguments, s) ==
    IF IsPanic(arguments) THEN Panic
    ELSE IF arguments.ok /\ char(">", space0(arguments.rest)).ok
    THEN Success(Tail(space0(arguments.rest)), Some(arguments.val))
    ELSE IF IsPrefix(<< "<", ",", " ", "void", ">" >>, s)
    THEN Success(Drop1(s, 5), None)
    ELSE Failure

\* pub fn template_parameters(s): the outer Option is None for "<, void>"
template_parameters(s) ==
    IF char("<", s).ok THEN close_parameters(separated_list0(Tail(s), << >>), s)
    ELSE Failure

\* ----------------------------------------------------------- type_specifier

\* EntityParser::keywords_parser(kws): one of the keywords, not followed by
\* more of an identifier
keywords_parser(kws, s) ==
    IF WordLen(s) = 1 /\ Head(s) \in kws THEN Success(Tail(s), Head(s))
    ELSE Failure

RECURSIVE parse_cv(_, _)
\* EntityParser::parse_cv, resumed after the qualifiers acc: the const and
\* volatile keywords of s, separated by spaces; no qualifier is a success
parse_cv(s, acc) ==
    IF ~keywords_parser({"const", "volatile"}, s).ok THEN Success(s, acc)
    ELSE IF keywords_parser({"const", "volatile"}, space0(Tail(s))).ok
    THEN parse_cv(space0(Tail(s)), acc \cup {Head(s)})
    ELSE Success(Tail(s), acc \cup {Head(s)})

\* An id-expression where its header is kept in the way: the header is
\* not skipped
id_header_kept(s) == s

\* opt(keywords_parser([...]).and(space1)), as the input that is left
id_header(s) ==
    IF /\ keywords_parser({"typename", "class", "struct", "enum", "union"}, s).ok
       /\ IsPrefix(<< " " >>, Tail(s))
    THEN space0(Tail(s))
    ELSE s

\* legacy_primitive.or(id_expression)
simple_type(s) ==
    Or(Tagged("LegacyName", keyword("void", s)),
       Tagged("IdExpression", id_expression(id_header(s))))

\* The TypeSpecifier of the qualifiers before, the simple type and the
\* qualifiers after: preceded(space0, parse_cv), then cv1 | cv2
TypeSpecifier(cv1, simple, cv2) ==
    Success(cv2.rest, [cv |-> cv1.val \cup cv2.val, simple_type |-> simple.val])

\* The simple type that follows the qualifiers cv1, then the qualifiers
\* after it
qualified_after(cv1, simple) ==
    IF IsPanic(simple) THEN Panic
    ELSE IF simple.ok
    THEN TypeSpecifier(cv1, simple, parse_cv(space0(simple.rest), {}))
    ELSE Failure

\* parse_cv.terminated(space0), then the simple type
qualified_before(cv1) == qualified_after(cv1, simple_type(space0(cv1.rest)))

\* pub fn type_specifier(s, parse_identifier, path_to_key)
type_specifier(s) == qualified_before(parse_cv(s, {}))

\* ------------------------------------------------------- function_signature

\* qualifiers::reference: "&&", "&" or no reference qualifier
reference(s) ==
    IF IsPrefix(<< "&", "&" >>, s) THEN Success(Drop1(s, 2), "RValue")
    ELSE IF IsPrefix(<< "&" >>, s) THEN Success(Tail(s), "LValue")
    ELSE Success(s, "None")

\* opt(delimited(char('('), value_like, char(')'))) on s, value being the
\* result of value_like after the parenthesis
noexcept_argument(value, s) ==
    IF IsPanic(value) THEN Panic
    ELSE IF value.ok /\ char(")", value.rest).ok
    THEN Success(Tail(value.rest), Some(value.val))
    ELSE Success(s, None)

\* A noexcept qualifier that takes no argument
noexcept_bare(s) ==
    IF keyword("noexcept", s).ok THEN Success(Tail(s), None) ELSE Failure

\* fn noexcept(s)
noexcept(s) ==
    IF ~keyword("noexcept", s).ok THEN Failure
    ELSE IF char("(", Tail(s)).ok
    THEN noexcept_argument(value_like(Drop1(s, 2)), Tail(s))
    ELSE Success(Tail(s), None)

RECURSIVE parameter_list(_, _)
\* The list acc and the parameter that follows it, or acc alone
parameters_more(elem, s, acc) ==
    IF IsPanic(elem) THEN Panic
    ELSE IF elem.ok THEN parameter_list(elem.rest, Append(acc, elem.val))
    ELSE Success(s, acc)

\* separated_list0(space0.and(char(',')).and(space0), types::type_like),
\* resumed after the parameters acc
parameter_list(s, acc) ==
    IF acc # << >> /\ ~char(",", space0(s)).ok THEN Success(s, acc)
    ELSE parameters_more(type_like(IF acc = << >> THEN s
                                   ELSE space0(Tail(space0(s)))), s, acc)

\* space0.and(char(')')) after the parameters
close_function_parameters(parameters) ==
    IF IsPanic(parameters) THEN Panic
    ELSE IF char(")", space0(parameters.rest)).ok
    THEN Success(Tail(space0(parameters.rest)), parameters.val)
    ELSE Failure

\* fn function_parameters(s)
function_parameters(s) ==
    IF char("(", s).ok
    THEN close_function_parameters(parameter_list(Tail(s), << >>))
    ELSE Failure

\* The FunctionSignature of the parameters and the qualifiers; the
\* noexcept clause is the result of preceded(space0, opt(noexcept))
FunctionSignature(parameters, cv, ref, clause) ==
    IF IsPanic(clause) THEN Panic
    ELSE Success(IF clause.ok THEN clause.rest ELSE space0(ref.rest),
                 [parameters |-> parameters.val,
                  cv |-> cv.val,
                  reference |-> ref.val,
                  noexcept |-> IF clause.ok THEN Some(clause.val) ELSE None])

\* preceded(space0, qualifiers::reference), then the noexcept clause
after_cv(parameters, cv) ==
    FunctionSignature(parameters, cv, reference(space0(cv.rest)),
                      noexcept(space0(reference(space0(cv.rest)).rest)))

\* preceded(space0, qualifiers::cv) after the parameters, then the rest
after_parameters(parameters) ==
    IF parameters.ok
    THEN after_cv(parameters, parse_cv(space0(parameters.rest), {}))
    ELSE parameters

\* pub fn function_signature(s)
function_signature(s) == after_parameters(function_parameters(s))

\* -------------------------------------------------------- operator_overload

\* map_opt of arith_and_templates: the candidate is rejected when a symbol
\* is queued after it
no_symbol_queued(candidate) ==
    IF candidate.ok /\ symbol(candidate.rest).ok THEN Failure ELSE candidate

\* arith_and_templates that never looks at the template parameters
arith_and_templates_no_templates(len, s) ==
    no_symbol_queued(AndOpt(arithmetic_or_comparison(len, s), Failure))

\* arith_and_templates that accepts whatever is queued after the candidate
arith_and_templates_no_peek(len, s) ==
    IF arithmetic_or_comparison(len, s).ok
    THEN AndOpt(arithmetic_or_comparison(len, s),
                template_parameters(arithmetic_or_comparison(len, s).rest))
    ELSE arithmetic_or_comparison(len, s)

\* fn arith_and_templates<const LEN: usize>(s)
arith_and_templates(len, s) ==
    IF arithmetic_or_comparison(len, s).ok
    THEN no_symbol_queued(
             AndOpt(arithmetic_or_comparison(len, s),
                    template_parameters(arithmetic_or_comparison(len, s).rest)))
    ELSE arithmetic_or_comparison(len, s)

\* The operators of template_oblivious that follow a space
worded_operator(s) ==
    IF char(" ", s).ok
    THEN Or(new_or_delete(Tail(s)),
            Or(co_await(Tail(s)), ToConversion(type_like(Tail(s)))))
    ELSE Failure

\* The template parameters that may follow the operator
with_parameters(operator) ==
    IF operator.ok THEN AndOpt(operator, template_parameters(operator.rest))
    ELSE operator

\* let template_oblivious, in operator_overload
template_oblivious(s) ==
    with_parameters(Or(Or(call_or_index(s), custom_literal(s)),
                       worded_operator(s)))

\* operator_overload that tries the longest operator first
operator_overload_longest_first(s) ==
    IF keyword("operator", s).ok
    THEN Or(arith_and_templates(3, Tail(s)),
            Or(arith_and_templates(2, Tail(s)),
               Or(arith_and_templates(1, Tail(s)),
                  template_oblivious(Tail(s)))))
    ELSE Failure

\* pub fn operator_overload(s)
operator_overload(s) ==
    IF keyword("operator", s).ok
    THEN Or(Or(Or(arith_and_templates(1, Tail(s)),
                  arith_and_templates(2, Tail(s))),
               arith_and_templates(3, Tail(s))),
            template_oblivious(Tail(s)))
    ELSE Failure

\* ----------------------------------------------------------------- literals
\* A number is the sequence of its decimal digits without leading zeros,
\* zero being the empty sequence: the 64-bit limits do not fit the integers
\* of the model checker, and only their order matters.

DigitChars == << "0", "1", "2", "3", "4", "5", "6", "7", "8", "9" >>

Digits == {DigitChars[i] : i \in 1 .. 10}

\* char::to_digit(10)
to_digit(c) == (CHOOSE i \in 1 .. 10 : DigitChars[i] = c) - 1

\* i64::MAX, 2^63 - 1
I64_MAX == << 9, 2, 2, 3, 3, 7, 2, 0, 3, 6, 8, 5, 4, 7, 7, 5, 8, 0, 7 >>

\* The magnitude of i64::MIN, 2^63
I64_MIN == << 9, 2, 2, 3, 3, 7, 2, 0, 3, 6, 8, 5, 4, 7, 7, 5, 8, 0, 8 >>

\* u64::MAX, 2^64 - 1
U64_MAX == << 1, 8, 4, 4, 6, 7, 4, 4, 0, 7, 3, 7, 0, 9, 5, 5, 1, 6, 1, 5 >>

\* a <= b, for numbers
LessEq(a, b) ==
    \/ Len(a) < Len(b)
    \/ /\ Len(a) = Len(b)
       /\ \/ a = b
          \/ \E i \in 1 .. Len(a) :
                /\ a[i] < b[i]
                /\ \A j \in 1 .. i - 1 : a[j] = b[j]

\* value * 10 + d
times_ten_plus(value, d) ==
    IF value = << >> /\ d = 0 THEN << >> ELSE Append(value, d)

\* value.checked_mul(10).and_then(|v| v.checked_add(d)) of a type whose
\* largest magnitude is limit: None on overflow
checked_mul_add(value, d, limit) ==
    IF LessEq(times_ten_plus(value, d), limit)
    THEN Some(times_ten_plus(value, d))
    ELSE None

RECURSIVE digit_loop(_, _, _, _)
\* The loop over the characters of nom's integer parsers, at position pos
\* with the value of the digits before it
digit_loop(s, pos, value, limit) ==
    IF s = << >> /\ pos = 0 THEN Failure
    ELSE IF s = << >> THEN Success(s, value)
    ELSE IF Head(s) \notin Digits
    THEN IF pos = 0 THEN Failure ELSE Success(s, value)
    ELSE IF checked_mul_add(value, to_digit(Head(s)), limit) = None THEN Failure
    ELSE digit_loop(Tail(s), pos + 1,
                    checked_mul_add(value, to_digit(Head(s)), limit)[2], limit)

\* LiteralValue::I64: the sign matters for a magnitude other than zero
I64(negative, magnitude) ==
    [literal |-> "I64", negative |-> negative /\ magnitude # << >>,
     magnitude |-> magnitude]

\* LiteralValue::U64
U64(magnitude) == [literal |-> "U64", magnitude |-> magnitude]

\* LiteralValue::Char
Char(c) == [literal |-> "Char", char |-> c]

\* Parser::map to a literal of the sign
ToI64(negative, r) ==
    IF r.ok THEN Success(r.rest, I64(negative, r.val)) ELSE r

\* Parser::map to LiteralValue::U64
ToU64(r) ==
    IF r.ok THEN Success(r.rest, U64(r.val)) ELSE r

\* nom::character::complete::i64: an optional sign, then the digits
i64(s) ==
    IF IsPrefix(<< "-" >>, s) THEN ToI64(TRUE, digit_loop(Tail(s), 0, << >>, I64_MIN))
    ELSE IF IsPrefix(<< "+" >>, s)
    THEN ToI64(FALSE, digit_loop(Tail(s), 0, << >>, I64_MAX))
    ELSE ToI64(FALSE, digit_loop(s, 0, << >>, I64_MAX))

\* nom::character::complete::u64: the digits, without a sign
u64(s) == ToU64(digit_loop(s, 0, << >>, U64_MAX))

RECURSIVE many0_suffix(_)
\* many0_count(satisfy(..)): the input after the characters U, L and Z of
\* either case
many0_suffix(s) ==
    IF s # << >> /\ Head(s) \in {"u", "U", "l", "L", "z", "Z"}
    THEN many0_suffix(Tail(s))
    ELSE s

\* terminated(_, many0_count(..))
TerminatedSuffix(r) ==
    IF r.ok THEN Success(many0_suffix(r.rest), r.val) ELSE r

\* integer that has no unsigned fallback
integer_signed_only(s) == TerminatedSuffix(i64(s))

\* fn integer(s)
integer(s) == TerminatedSuffix(Or(i64(s), u64(s)))

\* let prefix, in character: the input after the optional prefix
prefix(s) ==
    IF IsPrefix(<< "u", "8" >>, s) THEN Drop1(s, 2)
    ELSE IF s # << >> /\ Head(s) \in {"u", "U", "L"} THEN Tail(s)
    ELSE s

\* let escape_sequence, in character; HT, CR and LF name the characters
\* that \t, \r and \n denote
escape_sequence(s) ==
    IF s = << >> THEN Failure
    ELSE CASE Head(s) = "t" -> Success(Tail(s), "HT")
           [] Head(s) = "r" -> Success(Tail(s), "CR")
           [] Head(s) = "n" -> Success(Tail(s), "LF")
           [] Head(s) \in {"'", "\"", "\\"} -> Success(Tail(s), Head(s))
           [] OTHER -> Failure

\* nom anychar
anychar(s) ==
    IF s = << >> THEN Failure ELSE Success(Tail(s), Head(s))

\* preceded(char('\\'), escape_sequence)
escaped(s) ==
    IF char("\\", s).ok THEN escape_sequence(Tail(s)) ELSE Failure

\* character whose escape sequences are not decoded
character_undecoded(s) ==
    IF char("'", prefix(s)).ok
    THEN TerminatedChar(anychar(Tail(prefix(s))), "'")
    ELSE Failure

\* fn character(s)
character(s) ==
    IF char("'", prefix(s)).ok
    THEN TerminatedChar(Or(escaped(Tail(prefix(s))), anychar(Tail(prefix(s)))),
                        "'")
    ELSE Failure

\* Parser::map to LiteralValue::Char
ToChar(r) ==
    IF r.ok THEN Success(r.rest, Char(r.val)) ELSE r

\* fn literal_value(s)
literal_value(s) == Or(integer(s), ToChar(character(s)))

\* struct Literal
Literal(value, custom_suffix) ==
    [value |-> value, custom_suffix |-> custom_suffix]

\* Parser::map to Literal of the pair of the value and the optional suffix
ToLiteral(r) ==
    IF r.ok THEN Success(r.rest, Literal(r.val[1], r.val[2])) ELSE r

\* The optional identifier after the value
with_suffix(value) ==
    IF value.ok THEN AndOpt(value, identifier(value.rest)) ELSE value

\* literal whose suffix is never parsed
literal_without_suffix(s) ==
    ToLiteral(AndOpt(literal_value(s), Failure))

\* pub fn literal(s, parse_identifier), with atoms::identifier
literal(s) == ToLiteral(with_suffix(literal_value(s)))

\* ------------------------------------------------------------------ lambda

\* u32::MAX, 2^32 - 1
U32_MAX == << 4, 2, 9, 4, 9, 6, 7, 2, 9, 5 >>

\* nom::character::complete::u32: the digits, without a sign
u32(s) == digit_loop(s, 0, << >>, U32_MAX)

\* separated_pair(u32, char(':'), u32), line being the result of the
\* first u32
location(line) ==
    IF line.ok /\ char(":", line.rest).ok /\ u32(Tail(line.rest)).ok
    THEN Success(u32(Tail(line.rest)).rest,
                 << line.val, u32(Tail(line.rest)).val >>)
    ELSE Failure

\* opt(anychar.and(char(':'))), as the input that is left
disk_designator(s) ==
    IF Len(s) >= 2 /\ s[2] = ":" THEN Drop1(s, 2) ELSE s

\* nom take_until1(":") on s, colons being the places of ":" in s: the
\* input up to the first ":", an error if there is no ":" or nothing
\* before it
take_until1(s, colons) ==
    IF colons = {} \/ 1 \in colons THEN Failure
    ELSE LET first == CHOOSE i \in colons : \A j \in colons : i <= j IN
         Success(Drop1(s, first - 1), SubSeq(s, 1, first - 1))

\* recognize(opt(disk_designator).and(take_until1(":"))) on s, path being
\* the result of take_until1 after the disk designator: the input consumed
path_str(s, path) ==
    IF path.ok
    THEN Success(path.rest, SubSeq(s, 1, Len(s) - Len(path.rest)))
    ELSE Failure

\* The path of a lambda: Path::new of path_str
path(s) ==
    path_str(s, take_until1(disk_designator(s),
                            {i \in 1 .. Len(disk_designator(s)) :
                                disk_designator(s)[i] = ":"}))

\* struct Lambda
Lambda(file, loc) == [file |-> file, location |-> loc]

\* delimited(_, lambda, char(')')), file and loc being the results of
\* separated_pair(path, char(':'), location)
file_location(file, loc) ==
    IF loc.ok /\ char(")", loc.rest).ok
    THEN Success(Tail(loc.rest), Lambda(file.val, loc.val))
    ELSE Failure

\* The location that follows the file and the ':' after it
after_path(file) ==
    IF file.ok /\ char(":", file.rest).ok
    THEN file_location(file, location(u32(Tail(file.rest))))
    ELSE Failure

\* tag("(lambda at ")
LambdaAt == << "(", "lambda", " ", "at", " " >>

\* pub fn lambda(s)
lambda(s) ==
    IF IsPrefix(LambdaAt, s) THEN after_path(path(Drop1(s, Len(LambdaAt))))
    ELSE Failure

\* ------------------------------------------------- the parsers, on inputs

\* The longest operator of arithmetic_or_comparison, in symbols
MaxLEN == 3

\* The longest input of the template alphabet, in tokens
MaxTokens == 4

\* The tokens of the inputs that hold template parameters
TemplateTokens == {"<", ">", "=", "-", "*", ",", " ", "T", "void"}

RECURSIVE Strings(_, _)
\* The sequences of at most n tokens of an alphabet
Strings(alphabet, n) ==
    IF n = 0 THEN {<< >>}
    ELSE LET shorter == Strings(alphabet, n - 1) IN
         shorter \cup {Append(w, t) : w \in {x \in shorter : Len(x) = n - 1},
                                      t \in alphabet}

\* The inputs made of symbols
OperatorInputs == Strings(Symbols \cup {"T"}, MaxLEN)

Inputs == OperatorInputs \cup Strings(TemplateTokens, MaxTokens)

\* The tokens of the inputs that hold a prefix operator made of words or
\* brackets
UnaryTokens == {"(", ")", "[", "]", " ", "*", "T", "co_await", "delete", "new"}

\* The starts of the inputs that hold such a prefix operator, or nearly
UnaryHeads ==
    {<< >>, << "co_await" >>, << "delete" >>, << "delete", "[" >>,
     << "delete", "[", "]" >>, << "new" >>, << "new", "[", "]" >>,
     << "(", ")" >>, << "(", "T" >>, << "(", "T", ")" >>,
     << "(", "T", "*", ")" >>, << "*" >>}

UnaryInputs ==
    OperatorInputs
        \cup {head \o tail : head \in UnaryHeads,
                             tail \in Strings(UnaryTokens, MaxTokens - 2)}

\* The longest run of suffix characters after the digits of an input
MaxSuffix == 2

\* The characters of the number n
Chars(n) == [i \in 1 .. Len(n) |-> DigitChars[n[i] + 1]]

\* The digits of the inputs: none, small numbers, leading zeros, and the
\* numbers around 2^63 and 2^64
Numbers ==
    {<< >>, << 0 >>, << 4, 2 >>, << 0, 0, 4, 2 >>,
     I64_MAX, I64_MIN, << 0 >> \o I64_MIN,
     << 9, 2, 2, 3, 3, 7, 2, 0, 3, 6, 8, 5, 4, 7, 7, 5, 8, 0, 9 >>,
     U64_MAX, << 0, 0 >> \o U64_MAX,
     << 1, 8, 4, 4, 6, 7, 4, 4, 0, 7, 3, 7, 0, 9, 5, 5, 1, 6, 1, 6 >>,
     << 1, 8, 4, 4, 6, 7, 4, 4, 0, 7, 3, 7, 0, 9, 5, 5, 1, 6, 1, 5, 0 >>}

\* What follows the suffix characters in an input
LiteralTails == {<< >>, << "_", "m" >>, << "s" >>}

\* The inputs that start as an integer literal, or nearly
IntegerInputs ==
    {sign \o Chars(n) \o suffix \o tail :
        sign \in {<< >>, << "-" >>, << "+" >>},
        n \in Numbers,
        suffix \in Strings({"u", "U", "l", "L", "z", "Z"}, MaxSuffix),
        tail \in LiteralTails}

\* The characters of the inputs after the opening quote of a character
\* literal
CharacterTokens == {"'", "\\", "\"", "a", "n", "t", "_"}

\* The inputs that start as a character literal, or nearly
CharacterInputs ==
    {pre \o quote \o body :
        pre \in {<< >>, << "u", "8" >>, << "u" >>, << "U" >>, << "L" >>, << "8" >>},
        quote \in {<< "'" >>, << "\"" >>},
        body \in Strings(CharacterTokens, MaxTokens - 1)}

\* The keywords of an elaborated type specifier
ElaboratedKeywords == {"typename", "class", "struct", "enum", "union"}

\* The inputs that start as a type specifier, or nearly: qualifiers, the
\* header of an id-expression, then an id-expression and what follows it
TypeSpecifierInputs ==
    {cv1 \o header \o tail :
        cv1 \in {<< >>, << "const", " " >>,
                 << "volatile", " ", "const", " " >>},
        header \in {<< >>, << "class" >>, << "class", " ", " " >>}
                    \cup {<< k, " " >> : k \in ElaboratedKeywords},
        tail \in Strings({"T", "<", ">", " ", "const"}, MaxTokens - 1)}

\* The most qualifiers after the parameters of an input
MaxQualifiers == 3

\* The parameter lists of the inputs, two of them malformed
ParameterTexts ==
    {<< "(", ")" >>, << "(", " ", ")" >>, << "(", "T", ")" >>,
     << "(", "T", "*", " ", ",", " ", "T", ")" >>,
     << "(", "T" >>, << "(", ",", ")" >>}

\* The qualifiers of the inputs, one of them with a misplaced space
QualifierTexts ==
    {<< " ", "const" >>, << " ", "volatile" >>, << " ", "&" >>, << "&", "&" >>,
     << " ", "noexcept" >>, << " ", "noexcept", "(", "T", ")" >>,
     << " ", "noexcept", " ", "(", "T", ")" >>}

RECURSIVE Qualifiers(_)
\* The texts of at most n qualifiers
Qualifiers(n) ==
    IF n = 0 THEN {<< >>}
    ELSE Qualifiers(n - 1)
            \cup {w \o q : w \in Qualifiers(n - 1), q \in QualifierTexts}

\* The inputs that start as a function signature, or nearly
SignatureInputs ==
    {p \o q : p \in ParameterTexts, q \in Qualifiers(MaxQualifiers)}

\* The text that clang emits for parameters it could not print
VoidParameters == << "<", ",", " ", "void", ">" >>

\* The inputs that start as template parameters, or nearly
TemplateInputs ==
    Strings(TemplateTokens, MaxTokens)
        \cup {VoidParameters \o tail :
                 tail \in Strings(TemplateTokens, MaxTokens - 3)}

\* The longest path of a lambda, in characters
MaxPath == 3

\* The paths of the lambdas: any characters among a letter, a separator
\* and ':'
Paths == Strings({"a", "/", ":"}, MaxPath)

\* The digits of the lines and columns: none, zero, small numbers, leading
\* zeros, and the numbers around 2^32
Locations ==
    {<< >>, << 0 >>, << 7 >>, << 0, 4, 2 >>, U32_MAX,
     << 4, 2, 9, 4, 9, 6, 7, 2, 9, 6 >>}

\* The inputs that start as a lambda, or nearly
LambdaInputs ==
    {LambdaAt \o P \o << ":" >> \o Chars(line) \o << ":" >> \o Chars(col)
        \o close :
        P \in Paths, line \in Locations, col \in Locations,
        close \in {<< ")" >>, << >>}}

\* s is an input of one of the parsers
IsInput(s) ==
    \/ s \in Inputs
    \/ s \in UnaryInputs
    \/ s \in IntegerInputs
    \/ s \in CharacterInputs
    \/ s \in TypeSpecifierInputs
    \/ s \in SignatureInputs
    \/ s \in TemplateInputs
    \/ s \in LambdaInputs

threadVars == << traceFile, mainPc, mainPanic, procPc, lockOwner, poisoned,
                 metadata, instructions, instruction_sender,
                 instruction_receiver, activities, activities_sender,
                 activities_receiver, strings, strings_sender,
                 strings_receiver, cur, pending, fetched, calls, sent,
                 recvCount, actLog, strLog, metaWrites, procLocks, extractLog >>

\* No processing thread: the parsers are pure functions of their input
NoThread ==
    /\ traceFile = "good"
    /\ mainPc = "parsing"
    /\ mainPanic = "none"
    /\ procPc = "unspawned"
    /\ lockOwner = "none"
    /\ poisoned = FALSE
    /\ metadata = "None"
    /\ instructions = << >>
    /\ instruction_sender = FALSE
    /\ instruction_receiver = FALSE
    /\ activities = << >>
    /\ activities_sender = FALSE
    /\ activities_receiver = FALSE
    /\ strings = << >>
    /\ strings_sender = FALSE
    /\ strings_receiver = FALSE
    /\ cur = NoInstruction
    /\ pending = NoInstruction
    /\ fetched = NoReply
    /\ calls = 0
    /\ sent = << >>
    /\ recvCount = 0
    /\ actLog = << >>
    /\ strLog = << >>
    /\ metaWrites = 0
    /\ procLocks = 0
    /\ extractLog = << >>

ParserInit ==
    /\ NoThread
    /\ NoDisplay
    /\ IsInput(input)
    /\ parser = "none"
    /\ LEN = 0
    /\ allow_comma = FALSE
    /\ allow_greater = FALSE
    /\ result = Failure

flagVars == << allow_comma, allow_greater >>

\* arithmetic_or_comparison::<len>(input)
ArithmeticOrComparison ==
    /\ parser = "none"
    /\ input \in Inputs
    /\ \E len \in 1 .. MaxLEN :
          /\ LEN' = len
          /\ result' = arithmetic_or_comparison(len, input)
    /\ parser' = "arithmetic_or_comparison"
    /\ UNCHANGED << input, flagVars, threadVars, displayVars >>

\* operator_overload of the input that follows the operator keyword
OperatorOverload ==
    /\ parser = "none"
    /\ input \in Inputs
    /\ result' = operator_overload(<< "operator" >> \o input)
    /\ parser' = "operator_overload"
    /\ UNCHANGED << input, LEN, flagVars, threadVars, displayVars >>

\* binary_expr_middle::<comma, greater>(input)
BinaryExprMiddle ==
    /\ parser = "none"
    /\ input \in OperatorInputs
    /\ \E comma \in BOOLEAN, greater \in BOOLEAN :
          /\ allow_comma' = comma
          /\ allow_greater' = greater
          /\ result' = binary_expr_middle(comma, greater, input)
    /\ parser' = "binary_expr_middle"
    /\ UNCHANGED << input, LEN, threadVars, displayVars >>

\* unary_expr_prefix(input)
UnaryExprPrefix ==
    /\ parser = "none"
    /\ input \in UnaryInputs
    /\ result' = unary_expr_prefix(input)
    /\ parser' = "unary_expr_prefix"
    /\ UNCHANGED << input, LEN, flagVars, threadVars, displayVars >>

\* integer(input)
IntegerLiteral ==
    /\ parser = "none"
    /\ input \in IntegerInputs
    /\ result' = integer(input)
    /\ parser' = "integer"
    /\ UNCHANGED << input, LEN, flagVars, threadVars, displayVars >>

\* character(input)
CharacterLiteral ==
    /\ parser = "none"
    /\ input \in CharacterInputs
    /\ result' = character(input)
    /\ parser' = "character"
    /\ UNCHANGED << input, LEN, flagVars, threadVars, displayVars >>

\* literal(input, atoms::identifier)
ParseLiteral ==
    /\ parser = "none"
    /\ IF input \in IntegerInputs THEN TRUE ELSE input \in CharacterInputs
    /\ result' = literal(input)
    /\ parser' = "literal"
    /\ UNCHANGED << input, LEN, flagVars, threadVars, displayVars >>

\* type_specifier(input, atoms::identifier, Path::new)
ParseTypeSpecifier ==
    /\ parser = "none"
    /\ input \in TypeSpecifierInputs
    /\ result' = type_specifier(input)
    /\ parser' = "type_specifier"
    /\ UNCHANGED << input, LEN, flagVars, threadVars, displayVars >>

\* function_signature(input)
ParseFunctionSignature ==
    /\ parser = "none"
    /\ input \in SignatureInputs
    /\ result' = function_signature(input)
    /\ parser' = "function_signature"
    /\ UNCHANGED << input, LEN, flagVars, threadVars, displayVars >>

\* template_parameters(input)
ParseTemplateParameters ==
    /\ parser = "none"
    /\ input \in TemplateInputs
    /\ result' = template_parameters(input)
    /\ parser' = "template_parameters"
    /\ UNCHANGED << input, LEN, flagVars, threadVars, displayVars >>

\* lambda(input)
ParseLambda ==
    /\ parser = "none"
    /\ input \in LambdaInputs
    /\ result' = lambda(input)
    /\ parser' = "lambda"
    /\ UNCHANGED << input, LEN, flagVars, threadVars, displayVars >>

ParserNext ==
    \/ ArithmeticOrComparison
    \/ OperatorOverload
    \/ BinaryExprMiddle
    \/ UnaryExprPrefix
    \/ IntegerLiteral
    \/ CharacterLiteral
    \/ ParseLiteral
    \/ ParseTypeSpecifier
    \/ ParseFunctionSignature
    \/ ParseTemplateParameters
    \/ ParseLambda

ParserSpec == ParserInit /\ [][ParserNext]_vars

\* ---------------------------------------------- properties of the threads

\* The instructions a log of replies answers, in the order of the log
Requests(log) == [k \in 1 .. Len(log) |-> log[k].to]

\* The replies of a log answer instructions of increasing rank, each the
\* instruction that was sent with that rank
InOrderOfSending(log) ==
    /\ \A k \in 1 .. Len(log) :
          /\ log[k].to.n \in 1 .. Len(sent)
          /\ log[k].to = sent[log[k].to.n]
    /\ \A j, k \in 1 .. Len(log) : j < k => log[j].to.n < log[k].to.n

Ranks(log) == { log[k].to.n : k \in 1 .. Len(log) }

\* C1: the worker takes the instructions in the order they were sent and
\* sends exactly one reply for an instruction before it receives the next
\* one, so on each reply channel the replies are in the order of the
\* requests that caused them.
C1_FifoOneReplyEach ==
    LET answered == Len(actLog) + Len(strLog) IN
    /\ recvCount <= Len(sent)
    /\ procPc = "worker_recv" => answered = recvCount
    /\ procPc = "worker_reply" => /\ answered = recvCount - 1
                                  /\ cur = sent[recvCount]
    /\ answered \in {recvCount - 1, recvCount}
    /\ InOrderOfSending(actLog)
    /\ InOrderOfSending(strLog)
    /\ Ranks(actLog) \cup Ranks(strLog) = 1 .. answered

\* C1 witness: two instructions were answered, one on each channel, while a
\* third one waited in the instruction channel.
C1_Witness ==
    /\ Len(actLog) >= 1
    /\ Len(strLog) >= 1
    /\ Len(instructions) >= 1
    /\ Len(sent) = MaxSent

IsActivitiesRequest(instruction) ==
    instruction.kind \in {"GetRootActivities", "GetDirectChildren"}

\* Instructions sent and not yet answered to the caller
Outstanding ==
    Len(instructions) + Len(activities) + Len(strings)
      + (IF procPc = "worker_reply" THEN 1 ELSE 0)

C2_Safety ==
    \* the channel of each kind of instruction
    /\ \A k \in 1 .. Len(actLog) : IsActivitiesRequest(actLog[k].to)
    /\ \A k \in 1 .. Len(strLog) : strLog[k].to.kind = "DescribeActivities"
    \* at most one instruction is outstanding, and it is the caller's
    /\ Outstanding <= 1
    /\ mainPc = "fetch" =>
          /\ pending = sent[Len(sent)]
          /\ instructions \in {<< >>, << pending >>}
          /\ procPc = "worker_reply" => cur = pending
          /\ IF IsActivitiesRequest(pending)
             THEN activities \in {<< >>, << ReplyTo(pending) >>} /\ strings = << >>
             ELSE strings \in {<< >>, << ReplyTo(pending) >>} /\ activities = << >>
    \* no stale or unmatched message once the call has returned
    /\ mainPc = "idle" =>
          /\ Outstanding = 0
          /\ fetched = ReplyTo(pending)

InFetch == mainPc = "fetch"

\* C2: GetRootActivities and GetDirectChildren are answered on the
\* activities channel and DescribeActivities on the strings channel; at most
\* one instruction is outstanding, every fetch returns the reply to the
\* instruction its own call sent, no channel holds a stale message, and a
\* fetch always ends.
C2_OneOutstandingMatchedReply == []C2_Safety /\ (InFetch ~> ~InFetch)

\* C2 witness: the main thread is back from calls answered on both channels.
C2_Witness ==
    /\ mainPc = "idle"
    /\ Len(actLog) >= 1
    /\ Len(strLog) >= 1
    /\ fetched # NoReply

\* C3: when the trace loads successfully, new returns without panicking.
C3_NewReturnsWithoutPanic ==
    traceFile = "good" => mainPc \notin {"new_unwind", "new_unwind_sender"}

\* C4: once from_file has failed on the processing thread, the load error
\* is in the slot and try_extract_metadata returns Some(Err(error)) (until
\* it has been returned) instead of panicking.
C4_LoadErrorIsReturned ==
    (traceFile = "bad" /\ procPc = "panicked") =>
        \/ try_extract_metadata(lockOwner, poisoned, metadata) = "SomeErr"
        \/ \E k \in 1 .. Len(extractLog) : extractLog[k] = "SomeErr"

IsSome(outcome) == outcome \in {"SomeOk", "SomeErr"}

\* C5: the slot is written once, before any instruction is handled, and the
\* processing thread locks the mutex only for that write;
\* try_extract_metadata returns Some at most once and every call after a
\* successful extraction panics.
C5_MetadataHandedOverOnce ==
    /\ metaWrites <= 1
    /\ procLocks <= 1
    /\ recvCount > 0 => metaWrites = 1
    /\ procPc \in {"worker_recv", "worker_reply", "returned"} =>
          metaWrites = 1 /\ lockOwner # "proc"
    /\ Cardinality({k \in 1 .. Len(extractLog) : IsSome(extractLog[k])}) <= 1
    /\ \A j, k \in 1 .. Len(extractLog) :
          (j < k /\ IsSome(extractLog[j])) => extractLog[k] = "panic"
    /\ (\E k \in 1 .. Len(extractLog) : IsSome(extractLog[k])) =>
          try_extract_metadata(lockOwner, poisoned, metadata) = "panic"

\* C5 witness: a successful extraction followed by a call that panicked.
C5_Witness == extractLog = << "SomeOk", "panic" >>

ThreadEnded == procPc \in {"returned", "panicked"}

\* C6 as stated: the processing thread never ends, by returning or by
\* panicking, while the instruction sender is alive.
C6_EndsOnlyAfterHangUp == ThreadEnded => ~instruction_sender

\* C6 amended: the processing thread ends while the instruction sender is
\* alive only by its panic on a trace that fails to load, before the worker
\* loop has started; the worker loop returns only once the main thread has
\* dropped the instruction sender and every instruction sent was answered.
C6_EndsAfterHangUpOrLoadFailure ==
    /\ (ThreadEnded /\ instruction_sender) =>
          /\ procPc = "panicked"
          /\ traceFile = "bad"
          /\ metadata = "SomeErr"
          /\ recvCount = 0
    /\ procPc = "returned" =>
          /\ ~instruction_sender
          /\ instructions = << >>
          /\ traceFile = "good"
    /\ (traceFile = "good" /\ ThreadEnded) => procPc = "returned"

\* C6 witness: the worker has answered an instruction and returned from its
\* loop after the main thread hung up.
C6_Witness == procPc = "returned" /\ recvCount >= 1 /\ ~instruction_sender

\* ---------------------------------------------- properties of the parsers

\* The characters that arithmetic_or_comparison is stated to consume
OperatorChars ==
    {"+", "-", "*", "/", "%", "^", "&", "|", "~", "!", "=", "<", ">", ","}

\* The operator that the characters w are stated to decode to, if any
Decoded(w) ==
    CASE Len(w) = 1 -> Some(Basic(SymbolOf(w[1]), FALSE, FALSE))
      [] Len(w) = 2 ->
            IF w[2] = "=" THEN Some(Basic(SymbolOf(w[1]), FALSE, TRUE))
            ELSE IF w[1] = w[2] THEN Some(Basic(SymbolOf(w[1]), TRUE, FALSE))
            ELSE IF w = << "-", ">" >> THEN Some(Deref(FALSE))
            ELSE None
      [] Len(w) = 3 ->
            IF w[1] = w[2] /\ w[3] = "=" THEN Some(Basic(SymbolOf(w[1]), TRUE, TRUE))
            ELSE IF w = << "-", ">", "*" >> THEN Some(Deref(TRUE))
            ELSE IF w = << "<", "=", ">" >> THEN Some(Spaceship)
            ELSE None

\* The candidate of operator_overload of an operator of len symbols
Candidate(len) == arith_and_templates(len, input)

Accepted(len) == Candidate(len).ok

Rejected(len) == Candidate(len) = Failure

\* The number of symbols of an arithmetic or comparison operator
OpLen(op) ==
    CASE op.op = "Basic" ->
            1 + (IF op.twice THEN 1 ELSE 0) + (IF op.equal THEN 1 ELSE 0)
      [] op.op = "Deref" -> IF op.star THEN 3 ELSE 2
      [] op.op = "Spaceship" -> 3
      [] OTHER -> 0

\* The operator of len symbols has an invalid tail: a symbol is queued after
\* its candidate, or its candidate strands input that the accepted parse
\* consumes
InvalidTail(len) ==
    Rejected(len) \/ (Accepted(len) /\ Len(Candidate(len).rest) > Len(result.rest))

\* C7: operator_overload parses "operator<<" at the end of the input as the
\* operator < twice without template parameters, and "operator<" followed
\* by a well-formed template parameter list as the operator < once with
\* that list; both consume the whole input.
C7_LessThenTemplateParameters ==
    parser = "operator_overload" =>
        /\ input = << "<", "<" >> =>
              result = Success(<< >>, << Basic("Less", TRUE, FALSE), None >>)
        /\ ( /\ input # << >>
             /\ Head(input) = "<"
             /\ template_parameters(Tail(input)).ok
             /\ template_parameters(Tail(input)).rest = << >> ) =>
              result = Success(<< >>,
                               << Basic("Less", FALSE, FALSE),
                                  Some(template_parameters(Tail(input)).val) >>)

C7_Witness ==
    /\ parser = "operator_overload"
    /\ input = << "<", "<", "void", ">" >>
    /\ result.ok
    /\ result.rest = << >>
    /\ result.val[1] = Basic("Less", FALSE, FALSE)
    /\ result.val[2] # None

\* C8, as stated: operator_overload returns the accepted candidate that no
\* longer candidate precedes, the candidates being tried at 3 symbols, then
\* 2, then 1.
C8_LongestCandidateFirst ==
    parser = "operator_overload" =>
        \A len \in 1 .. MaxLEN :
            (Accepted(len) /\ \A longer \in len + 1 .. MaxLEN : Rejected(longer))
                => result = Candidate(len)

\* C8, amended: operator_overload returns the accepted candidate that no
\* shorter candidate precedes, the candidates being tried at 1 symbol, then
\* 2, then 3.
C8_ShortestCandidateFirst ==
    parser = "operator_overload" =>
        \A len \in 1 .. MaxLEN :
            (Accepted(len) /\ \A shorter \in 1 .. len - 1 : Rejected(shorter))
                => result = Candidate(len)

C8_Witness ==
    /\ parser = "operator_overload"
    /\ input = << "<", "<", "T", ">" >>
    /\ Accepted(1)
    /\ Accepted(2)
    /\ Candidate(1) # Candidate(2)
    /\ result = Candidate(1)

C10_DecodesFirstSymbols ==
    parser = "arithmetic_or_comparison" =>
        IF /\ Len(input) >= LEN
           /\ \A i \in 1 .. LEN : input[i] \in OperatorChars
           /\ Decoded(SubSeq(input, 1, LEN)) # None
        THEN result = Success(SubSeq(input, LEN + 1, Len(input)),
                              Decoded(SubSeq(input, 1, LEN))[2])
        ELSE result = Failure

C10_Witness ==
    /\ parser = "arithmetic_or_comparison"
    /\ LEN = 2
    /\ input = << "=", "=", "T" >>
    /\ result = Success(<< "T" >>, Basic("AssignEq", FALSE, TRUE))

\* The filter of binary_expr_middle on the operators of the decoder table,
\* as stated
PassesFilter(op) ==
    /\ op \notin {Basic("BitNot", FALSE, FALSE), Basic("Not", FALSE, FALSE),
                  Basic("AddPlus", TRUE, FALSE), Basic("SubNeg", TRUE, FALSE)}
    /\ op = Basic("Comma", FALSE, FALSE) => allow_comma
    /\ op \in {Basic("Greater", FALSE, FALSE), Basic("Greater", TRUE, FALSE)}
          => allow_greater

\* The operator of len symbols is decoded from the input and passes the filter
Passing(len) ==
    /\ arithmetic_or_comparison(len, input).ok
    /\ PassesFilter(arithmetic_or_comparison(len, input).val)

\* C11: binary_expr_middle returns the operator of 3 symbols, else of 2, else
\* of 1 symbol that is decoded from the input and passes the filter: not ~ or
\* !, not ++ or --, not the comma unless ALLOW_COMMA, not > or >> unless
\* ALLOW_GREATER; it is an error when there is none.
C11_LongestPassingOperator ==
    parser = "binary_expr_middle" =>
        IF Passing(3) THEN result = arithmetic_or_comparison(3, input)
        ELSE IF Passing(2) THEN result = arithmetic_or_comparison(2, input)
        ELSE IF Passing(1) THEN result = arithmetic_or_comparison(1, input)
        ELSE result = Failure

\* C12: binary_expr_middle, unary_expr_prefix and operator_overload return a
\* parse or a parse error on every input; none reaches unreachable!() or
\* panic!().
C12_OperatorParsersAreTotal ==
    parser \in {"binary_expr_middle", "unary_expr_prefix", "operator_overload"}
        => ~IsPanic(result)

\* The type and the closing parenthesis that follow an opening parenthesis
CastOf(s) == TerminatedChar(type_like(Tail(s)), ")")

\* The prefix operator at the head of s and the input after it, as stated;
\* None when s starts with none of the stated prefixes
StatedPrefix(s) ==
    IF IsPrefix(<< "+", "+" >>, s) \/ IsPrefix(<< "-", "-" >>, s)
    THEN Some(<< Basic(SymbolOf(s[1]), TRUE, FALSE), Drop1(s, 2) >>)
    ELSE IF s # << >> /\ Head(s) \in {"+", "-", "*", "&", "~", "!"}
    THEN Some(<< Basic(SymbolOf(s[1]), FALSE, FALSE), Drop1(s, 1) >>)
    ELSE IF IsPrefix(<< "co_await", " " >>, s)
    THEN Some(<< CoAwait, Drop1(s, 1) >>)
    ELSE IF IsPrefix(<< "delete", "[", "]", " " >>, s)
    THEN Some(<< NewDelete(TRUE, TRUE), Drop1(s, 3) >>)
    ELSE IF IsPrefix(<< "delete", " " >>, s)
    THEN Some(<< NewDelete(TRUE, FALSE), Drop1(s, 1) >>)
    ELSE IF IsPrefix(<< "(" >>, s) /\ CastOf(s).ok
    THEN Some(<< Conversion(CastOf(s).val), CastOf(s).rest >>)
    ELSE None

\* C13: unary_expr_prefix accepts ++ and --, before one symbol of + - * & ~ !,
\* a cast (TypeLike), co_await and delete or delete[] followed by a space; it
\* consumes the spaces after the operator and rejects every other input.
C13_StatedPrefixesOnly ==
    parser = "unary_expr_prefix" =>
        IF StatedPrefix(input) = None THEN result = Failure
        ELSE result = Success(space0(StatedPrefix(input)[2][2]),
                              StatedPrefix(input)[2][1])

C13_Witness ==
    /\ parser = "unary_expr_prefix"
    /\ input = << "+", "+", "T" >>
    /\ result = Success(<< "T" >>, Basic("AddPlus", TRUE, FALSE))

RECURSIVE RunLen(_, _)
\* The number of leading characters of s that are in set
RunLen(s, set) ==
    IF s # << >> /\ Head(s) \in set THEN 1 + RunLen(Tail(s), set) ELSE 0

RECURSIVE StripZeros(_)
StripZeros(n) ==
    IF n # << >> /\ Head(n) = 0 THEN StripZeros(Tail(n)) ELSE n

\* The decimal of an input: its sign, the number of its digits, the number
\* they denote, and what follows the suffix characters after them
Negative(s) == IsPrefix(<< "-" >>, s)

Unsigned(s) == IF Negative(s) THEN Tail(s) ELSE s

DigitCount(s) == RunLen(Unsigned(s), Digits)

NumberOf(s) ==
    StripZeros([i \in 1 .. DigitCount(s) |-> to_digit(Unsigned(s)[i])])

AfterSuffix(s) ==
    Drop1(Unsigned(s),
          DigitCount(s) + RunLen(Drop1(Unsigned(s), DigitCount(s)),
                                 {"u", "U", "l", "L", "z", "Z"}))

\* C14: on a decimal v, with or without a minus sign, followed by any
\* number of the characters u U l L z Z, integer returns I64(v) when
\* -2^63 <= v <= 2^63 - 1, U64(v) when 2^63 <= v <= 2^64 - 1, and fails
\* otherwise; the characters after these are left.
C14_SignedThenUnsigned ==
    (parser = "integer" /\ ~IsPrefix(<< "+" >>, input)) =>
        IF DigitCount(input) = 0 THEN result = Failure
        ELSE IF LessEq(NumberOf(input), IF Negative(input) THEN I64_MIN ELSE I64_MAX)
        THEN result = Success(AfterSuffix(input),
                              I64(Negative(input), NumberOf(input)))
        ELSE IF ~Negative(input) /\ LessEq(NumberOf(input), U64_MAX)
        THEN result = Success(AfterSuffix(input), U64(NumberOf(input)))
        ELSE result = Failure

C14_Witness ==
    /\ parser = "integer"
    /\ input = Chars(I64_MIN) \o << "u", "L", "_", "m" >>
    /\ result = Success(<< "_", "m" >>, U64(I64_MIN))

\* The length of the prefix u8, u, U or L of a character literal
PrefixLen(s) ==
    IF IsPrefix(<< "u", "8" >>, s) THEN 2
    ELSE IF s # << >> /\ Head(s) \in {"u", "U", "L"} THEN 1
    ELSE 0

\* The character that the escape sequence of the character c denotes
Denoted(c) ==
    CASE c = "t" -> "HT" [] c = "r" -> "CR" [] c = "n" -> "LF" [] OTHER -> c

\* What a character literal is stated to parse to, b being the input after
\* its opening quote: a backslash and one of t r n ' " \ is an escape
StatedCharacter(b) ==
    IF Len(b) >= 2 /\ b[1] = "\\" /\ b[2] \in {"t", "r", "n", "'", "\"", "\\"}
    THEN IF Len(b) >= 3 /\ b[3] = "'"
         THEN Success(Drop1(b, 3), Denoted(b[2]))
         ELSE Failure
    ELSE IF Len(b) >= 2 /\ b[2] = "'" THEN Success(Drop1(b, 2), b[1])
    ELSE Failure

\* C15: character accepts an optional prefix u8, u, U or L, a quote, one
\* character or one escape among \t \r \n \' \" \\, and a quote right after
\* it; it returns the character denoted, whatever the prefix, and leaves
\* what follows the closing quote; it fails on anything else.
C15_OneCharacterOrEscape ==
    parser = "character" =>
        IF Len(input) > PrefixLen(input) /\ input[PrefixLen(input) + 1] = "'"
        THEN result = StatedCharacter(Drop1(input, PrefixLen(input) + 1))
        ELSE result = Failure

C15_Witness ==
    /\ parser = "character"
    /\ input = << "u", "8", "'", "\\", "n", "'" >>
    /\ result = Success(<< >>, "LF")

\* The value at the head of the input, before any identifier: the decimal
\* of an integer literal, or a character literal
ValueOf(s) == Or(Or(i64(s), u64(s)), ToChar(character(s)))

\* The identifier right after the value, if there is one
SuffixOf(s) == identifier(ValueOf(s).rest)

\* The identifier after an integer is only its suffix characters u U l L z Z
StandardSuffix(s) ==
    /\ ValueOf(s).val.literal # "Char"
    /\ SuffixOf(s).ok
    /\ \A i \in 1 .. Len(SuffixOf(s).val) :
          SuffixOf(s).val[i] \in {"u", "U", "l", "L", "z", "Z"}

\* C16: on a value immediately followed by an identifier, literal returns
\* the value with the whole identifier as custom_suffix; on a value that no
\* identifier follows, or only the suffix characters of an integer, it
\* returns the value with custom_suffix None.
C16_WholeIdentifierIsSuffix ==
    (parser = "literal" /\ ValueOf(input).ok) =>
        IF SuffixOf(input).ok /\ ~StandardSuffix(input)
        THEN result = Success(SuffixOf(input).rest,
                              Literal(ValueOf(input).val, Some(SuffixOf(input).val)))
        ELSE result = Success(IF SuffixOf(input).ok THEN SuffixOf(input).rest
                              ELSE ValueOf(input).rest,
                              Literal(ValueOf(input).val, None))

\* The input that is left after the leading qualifiers of s
AfterQualifiers(s) == space0(parse_cv(s, {}).rest)

\* s holds an elaborated keyword, whitespace and an id-expression after
\* its leading qualifiers
Elaborated(s) ==
    /\ keywords_parser(ElaboratedKeywords, AfterQualifiers(s)).ok
    /\ IsPrefix(<< " " >>, Tail(AfterQualifiers(s)))
    /\ id_expression(space0(Tail(AfterQualifiers(s)))).ok

\* s without the elaborated keyword and the whitespace after it
Unelaborated(s) ==
    SubSeq(s, 1, Len(s) - Len(AfterQualifiers(s)))
        \o space0(Tail(AfterQualifiers(s)))

\* C17: the type specifier of an id-expression behind an elaborated
\* keyword and whitespace, with or without qualifiers around it, is the
\* type specifier of the same input without the keyword: the keyword is
\* discarded
C17_ElaboratedKeywordDiscarded ==
    (parser = "type_specifier" /\ Elaborated(input))
        => /\ result.ok
           /\ result = type_specifier(Unelaborated(input))

\* "const class T" is parsed as "const T"
C17_Witness ==
    /\ parser = "type_specifier"
    /\ input = << "const", " ", "class", " ", "T" >>
    /\ result = Success(<< >>, [cv |-> {"const"},
                                simple_type |-> << "IdExpression",
                                                   << <<"T">>, None >> >>])

\* The type of a parameter written T, and of one written T*
TypeT ==
    [simple_type |-> << "IdExpression", << << "T" >>, None >> >>,
     declarators |-> << >>]

PointerToT ==
    [simple_type |-> << "IdExpression", << << "T" >>, None >> >>,
     declarators |-> << "Pointer" >>]

\* The well-formed parameter lists and the parameters they state
StatedParameters ==
    {<< << "(", ")" >>, << >> >>,
     << << "(", " ", ")" >>, << >> >>,
     << << "(", "T", ")" >>, << TypeT >> >>,
     << << "(", "T", "*", " ", ",", " ", "T", ")" >>, << PointerToT, TypeT >> >>}

\* The cv-qualifier texts and the qualifiers they state
StatedCv ==
    {<< << >>, {} >>,
     << << " ", "const" >>, {"const"} >>,
     << << " ", "volatile" >>, {"volatile"} >>,
     << << " ", "volatile", " ", "const" >>, {"const", "volatile"} >>,
     << << " ", "const", " ", "volatile" >>, {"const", "volatile"} >>}

\* The reference qualifier texts and the qualifier they state
StatedReference ==
    {<< << >>, "None" >>,
     << << " ", "&" >>, "LValue" >>,
     << << "&", "&" >>, "RValue" >>}

\* The noexcept clause texts and the noexcept field they state
StatedNoexcept ==
    {<< << >>, None >>,
     << << " ", "noexcept" >>, Some(None) >>,
     << << " ", "noexcept", "(", "T", ")" >>,
        Some(Some(<< "IdExpression", << << "T" >>, None >> >>)) >>}

\* The qualifiers that are out of order after the reference qualifier r
\* and the noexcept clause n, or nothing
OutOfOrder(r, n) ==
    {<< >>}
      \cup (IF r # << >> \/ n # << >>
            THEN {<< " ", "const" >>, << " ", "volatile" >>,
                  << " ", "const", " ", "noexcept" >>}
            ELSE {})
      \cup (IF n # << >> THEN {<< " ", "&" >>, << "&", "&" >>} ELSE {})

\* C18: a parameter list followed in this order by cv-qualifiers, one
\* reference qualifier and a noexcept clause, each optional, gives these
\* parameters and qualifiers, the noexcept field being None, Some(None) or
\* Some(Some(v)); a qualifier out of this order after them is left in the
\* input
C18_QualifiersInFixedOrder ==
    parser = "function_signature" =>
        \A p \in StatedParameters, c \in StatedCv, r \in StatedReference,
           n \in StatedNoexcept :
            \A left \in OutOfOrder(r[1], n[1]) :
                input = p[1] \o c[1] \o r[1] \o n[1] \o left
                    => /\ result.ok
                       /\ result.val = [parameters |-> p[2], cv |-> c[2],
                                        reference |-> r[2], noexcept |-> n[2]]
                       /\ space0(result.rest) = space0(left)

\* "() const&& noexcept(T)" holds all three qualifiers in order
C18_Witness ==
    /\ parser = "function_signature"
    /\ input = << "(", ")", " ", "const", "&", "&", " ", "noexcept", "(", "T", ")" >>
    /\ result = Success(<< >>,
                        [parameters |-> << >>, cv |-> {"const"},
                         reference |-> "RValue",
                         noexcept |-> Some(Some(<< "IdExpression",
                                                   << << "T" >>, None >> >>))])

\* C19: "<, void>" is parsed to None, which is neither an error nor a
\* list of parameters, and "<>" to the empty list Some([]), which is not
\* None; the bracketed text is consumed in both cases
C19_VoidParametersAreNone ==
    parser = "template_parameters" =>
        /\ IsPrefix(VoidParameters, input)
              => result = Success(Drop1(input, Len(VoidParameters)), None)
        /\ IsPrefix(<< "<", ">" >>, input)
              => /\ result = Success(Drop1(input, 2), Some(<< >>))
                 /\ result.val # None

\* "<, void>" before a closing bracket of an outer list
C19_Witness ==
    /\ parser = "template_parameters"
    /\ input = VoidParameters \o << ">" >>
    /\ result = Success(<< ">" >>, None)

\* "<>" alone
C19_EmptyListWitness ==
    /\ parser = "template_parameters"
    /\ input = << "<", ">" >>
    /\ result = Success(<< >>, Some(<< >>))

\* The text of the lambda at line and col of the file P
LambdaText(P, line, col) ==
    LambdaAt \o P \o << ":" >> \o Chars(line) \o << ":" >> \o Chars(col)
        \o << ")" >>

\* The lines and columns from 0 to 2^32 - 1
InRange(n) == n # << >> /\ LessEq(StripZeros(n), U32_MAX)

\* P holds no ':' other than a disk designator
PlainPath(P) == P # << >> /\ \A i \in 1 .. Len(P) : P[i] = ":" => i = 2

\* C20: the lambda at a line and a column in range of a non-empty path
\* without ':' other than as its second character is the Lambda of that
\* path, line and column, and the whole input is consumed; with any other
\* ':' in the path, the parse fails
C20_LambdaOfPathAndLocation ==
    parser = "lambda" =>
        \A P \in Paths \ {<< >>} :
          \A line \in Locations, col \in Locations :
            (InRange(line) /\ InRange(col)
               /\ input = LambdaText(P, line, col))
              => IF PlainPath(P)
                 THEN result = Success(<< >>,
                                       Lambda(P, << StripZeros(line),
                                                    StripZeros(col) >>))
                 ELSE ~result.ok

\* A path is long enough when a character follows what may be read as its
\* disk designator
LongEnough(P) == Len(P) >= 3 \/ (Len(P) = 2 /\ P[2] # ":")

\* The lambda of a path that is long enough and does not start with ':'
\* is as stated
C20_LongEnoughPaths ==
    parser = "lambda" =>
        \A P \in Paths \ {<< >>} :
          \A line \in Locations, col \in Locations :
            (InRange(line) /\ InRange(col) /\ LongEnough(P) /\ P[1] # ":"
               /\ input = LambdaText(P, line, col))
              => IF PlainPath(P)
                 THEN result = Success(<< >>,
                                       Lambda(P, << StripZeros(line),
                                                    StripZeros(col) >>))
                 ELSE ~result.ok

\* The first k characters of the input are the name of a symbol operator
\* that operator_overload accepts at the end of the input, and the text
\* after them does not extend them to another operator name
NameThenText(k) ==
    /\ k < Len(input)
    /\ \A i \in 1 .. k : input[i] \in OperatorChars
    /\ Decoded(SubSeq(input, 1, k)) # None
    /\ operator_overload(<< "operator" >> \o SubSeq(input, 1, k))
          = Success(<< >>, << Decoded(SubSeq(input, 1, k))[2], None >>)
    /\ \A j \in k + 1 .. MaxLEN :
          j <= Len(input) /\ (\A i \in 1 .. j : input[i] \in OperatorChars)
              => Decoded(SubSeq(input, 1, j)) = None

\* C27: a symbol operator name that operator_overload accepts at the end of
\* the input is accepted, as the same operator without template parameters,
\* before any text that is not part of the operator name, a ',' or a '>'
\* included, and that text is left unconsumed
C27_AcceptedBeforeAnyText ==
    parser = "operator_overload" =>
        \A k \in 1 .. MaxLEN :
            NameThenText(k) =>
                result = Success(Drop1(input, k),
                                 << Decoded(SubSeq(input, 1, k))[2], None >>)

\* The same, before text that does not start with an operator symbol and
\* does not close template parameters that open inside the name
C27_AcceptedBeforeOtherText ==
    parser = "operator_overload" =>
        \A k \in 1 .. MaxLEN :
            ( /\ NameThenText(k)
              /\ input[k + 1] \notin OperatorChars
              /\ \A j \in 1 .. k - 1 : ~template_parameters(Drop1(input, j)).ok ) =>
                result = Success(Drop1(input, k),
                                 << Decoded(SubSeq(input, 1, k))[2], None >>)

\* C28: binary_expr_middle without ALLOW_COMMA fails on every input that
\* starts with ',', and without ALLOW_GREATER on every input that starts
\* with '>': it consumes no argument separator and no template-list closer
C28_FlagsProtectListParsers ==
    (parser = "binary_expr_middle" /\ input # << >>) =>
        /\ (~allow_comma /\ Head(input) = ",") => result = Failure
        /\ (~allow_greater /\ Head(input) = ">") => result = Failure

\* The same, on inputs where no '=' ends an operator that starts with the
\* symbol and where the filter does not panic
C28_SingleAndDoubledOnly ==
    (parser = "binary_expr_middle" /\ input # << >>) =>
        /\ (~allow_comma /\ Head(input) = "," /\ ~IsPanic(result)
                /\ ~IsPrefix(<< ",", "=" >>, input)
                /\ ~IsPrefix(<< ",", ",", "=" >>, input))
              => result = Failure
        /\ (~allow_greater /\ Head(input) = ">"
                /\ ~IsPrefix(<< ">", "=" >>, input)
                /\ ~IsPrefix(<< ">", ">", "=" >>, input))
              => result = Failure

\* ------------------------------------------------------------- C29

\* The ProcessingThread is being dropped, or has been, and its owner did not
\* panic
CleanDrop == mainPc \in {"drop", "drop_receivers", "done"} /\ mainPanic = "none"

\* The receiver of the channel the worker is about to reply on
ReplyReceiver ==
    IF ReplyChannel(cur) = "activities" THEN activities_receiver
    ELSE strings_receiver

C29_Safety ==
    \* no instruction is in flight at the drop: none queued, none being
    \* served, every one sent was answered and the answer fetched
    /\ CleanDrop =>
          /\ instructions = << >>
          /\ activities = << >> /\ strings = << >>
          /\ procPc \in {"worker_recv", "returned"}
          /\ recvCount = Len(sent)
          /\ Len(actLog) + Len(strLog) = Len(sent)
    \* reply never sends to a dropped receiver
    /\ procPc = "worker_reply" => ReplyReceiver
    \* and the thread of a trace that loaded never panics
    /\ traceFile = "good" => procPc # "panicked"

\* C29: when the main thread uses the public query methods and then drops
\* the ProcessingThread, no instruction is in flight at the drop, the worker
\* sees the closed instruction channel and returns from its loop, and it
\* never replies on a channel whose receiver is dropped: the panic of reply
\* (Main thread has likely crashed) is unreachable.
C29_CleanTeardown ==
    []C29_Safety /\ ((CleanDrop /\ ~instruction_sender) ~> procPc = "returned")

\* C29 witness: the owner made calls on both channels, dropped the
\* ProcessingThread to the end, and the worker has returned.
C29_Witness ==
    /\ mainPc = "done"
    /\ mainPanic = "none"
    /\ procPc = "returned"
    /\ Len(actLog) >= 1
    /\ Len(strLog) >= 1

\* ============================================================ truncate_string
\* fn truncate_string(input: &str, max_cols: u16) -> String of main.rs. The
\* function scans bytes and counts columns, so a character is modelled by
\* the number of bytes of its UTF-8 encoding and by its display width, and a
\* string by runs of equal characters.

\* u16::MAX, the largest value of header_bytes
U16_MAX == 65535

\* Longest input, in characters, besides the long runs
MaxChars == 4

\* Largest column budget
MaxCols == 5

Character(c, b, w) == [c |-> c, b |-> b, w |-> w]

\* One character of each length and width that occurs in UTF-8 text
TruncateChars ==
    { Character("a", 1, 1),         \* ASCII
      Character("U+00E9", 2, 1),    \* e with acute
      Character("U+200B", 3, 0),    \* zero width space
      Character("U+4E16", 3, 2),    \* CJK ideograph, wide
      Character("U+1F600", 4, 2) }  \* emoji, wide

\* The character result.push('…') appends
HorizontalEllipsis == Character("U+2026", 3, 1)

Run(ch, n) == [ch |-> ch, n |-> n]

\* input.as_bytes().len()
RECURSIVE Bytes(_)
Bytes(runs) ==
    IF runs = << >> THEN 0
    ELSE Head(runs).ch.b * Head(runs).n + Bytes(Tail(runs))

\* UnicodeWidthStr::width
RECURSIVE Width(_)
Width(runs) ==
    IF runs = << >> THEN 0
    ELSE Head(runs).ch.w * Head(runs).n + Width(Tail(runs))

\* Results of std::str::from_utf8
Utf8Error == [ok |-> FALSE, val |-> << >>]

Utf8(runs) == [ok |-> TRUE, val |-> runs]

Preceded(run, utf8) ==
    IF utf8.ok THEN Utf8(<< run >> \o utf8.val) ELSE Utf8Error

Followed(utf8, run) ==
    IF utf8.ok THEN Utf8(Append(utf8.val, run)) ELSE Utf8Error

\* std::str::from_utf8(&bytes[..k]): an error when byte k is inside the
\* encoding of a character
RECURSIVE from_utf8_to(_, _)
from_utf8_to(runs, k) ==
    IF k = 0 THEN Utf8(<< >>)
    ELSE IF Head(runs).ch.b * Head(runs).n <= k
    THEN Preceded(Head(runs),
                  from_utf8_to(Tail(runs), k - Head(runs).ch.b * Head(runs).n))
    ELSE IF k % Head(runs).ch.b = 0
    THEN Utf8(<< Run(Head(runs).ch, k \div Head(runs).ch.b) >>)
    ELSE Utf8Error

\* The last k bytes, decoded
RECURSIVE from_utf8_last(_, _)
from_utf8_last(runs, k) ==
    IF k = 0 THEN Utf8(<< >>)
    ELSE IF runs[Len(runs)].ch.b * runs[Len(runs)].n <= k
    THEN Followed(from_utf8_last(SubSeq(runs, 1, Len(runs) - 1),
                                 k - runs[Len(runs)].ch.b * runs[Len(runs)].n),
                  runs[Len(runs)])
    ELSE IF k % runs[Len(runs)].ch.b = 0
    THEN Utf8(<< Run(runs[Len(runs)].ch, k \div runs[Len(runs)].ch.b) >>)
    ELSE Utf8Error

\* std::str::from_utf8(&bytes[k..])
from_utf8_from(runs, k) == from_utf8_last(runs, Bytes(runs) - k)

\* let trailer_cols = (max_cols - 1) / 2;
trailer_cols(cols) == (cols - 1) \div 2

\* let header_cols = max_cols - 1 - trailer_cols;
header_cols(cols) == cols - 1 - trailer_cols(cols)

\* ---------------------------------------------------------------- inputs

\* The runs of a sequence of characters
RECURSIVE Runs(_)
JoinRun(ch, rest) ==
    IF rest # << >> /\ Head(rest).ch = ch
    THEN << Run(ch, Head(rest).n + 1) >> \o Tail(rest)
    ELSE << Run(ch, 1) >> \o rest

Runs(chars) ==
    IF chars = << >> THEN << >> ELSE JoinRun(Head(chars), Runs(Tail(chars)))

ShortInputs ==
    { Runs(chars) : chars \in UNION { [1 .. n -> TruncateChars] : n \in 1 .. MaxChars } }

\* Zero width characters up to the last bytes a u16 can index, then two
\* columns of text
LongInputs ==
    { << Run(Character("U+200B", 3, 0), n), Run(Character("a", 1, 1), 2) >> :
        n \in { U16_MAX \div 3 - 1, U16_MAX \div 3 + 1 } }

\* ---------------------------------------------------------------- actions

\* The call truncate_string(input, max_cols), up to the first loop;
\* debug_assert!(input.width() > max_cols.into())
TruncateInit ==
    /\ NoParse
    /\ NoThread
    /\ NoDescribe
    /\ str \in ShortInputs \cup LongInputs
    /\ max_cols \in 1 .. MaxCols
    /\ Width(str) > max_cols
    /\ build \in {"debug", "release"}
    /\ truncPc = "header"
    /\ header_bytes = header_cols(max_cols)
    /\ trailer_start = 0
    /\ last_good = << >>
    /\ truncated = << >>

\* A panic of truncate_string
TruncatePanics ==
    /\ truncPc' = "panic"
    /\ UNCHANGED << header_bytes, trailer_start, last_good, truncated >>

\* One turn of the header loop. header_bytes is a u16: += 1 at u16::MAX
\* panics where overflow checks are on and wraps to 0 where they are off.
\* At the break, the header and the ellipsis are pushed and trailer_start is
\* computed; a usize that wrapped below 0 is written as a negative number.
HeaderLoop ==
    /\ truncPc = "header"
    /\ IF header_bytes > Bytes(str)
       THEN TruncatePanics
       ELSE IF from_utf8_to(str, header_bytes).ok
               /\ Width(from_utf8_to(str, header_bytes).val) > header_cols(max_cols)
       THEN IF Bytes(str) < trailer_cols(max_cols) /\ build = "debug"
            THEN TruncatePanics
            ELSE /\ truncated' = last_good \o << Run(HorizontalEllipsis, 1) >>
                 /\ trailer_start' = Bytes(str) - trailer_cols(max_cols)
                 /\ truncPc' = "trailer"
                 /\ UNCHANGED << header_bytes, last_good >>
       ELSE IF header_bytes = U16_MAX /\ build = "debug"
       THEN TruncatePanics
       ELSE /\ last_good' = IF from_utf8_to(str, header_bytes).ok
                            THEN from_utf8_to(str, header_bytes).val
                            ELSE last_good
            /\ header_bytes' = (header_bytes + 1) % (U16_MAX + 1)
            /\ UNCHANGED << truncPc, trailer_start, truncated >>
    /\ UNCHANGED << str, max_cols, build, describeVars, parseVars, threadVars >>

\* One turn of the trailer loop; at the break the trailer is pushed and the
\* result returned
TrailerLoop ==
    /\ truncPc = "trailer"
    /\ IF trailer_start < 0 \/ trailer_start > Bytes(str)
       THEN TruncatePanics
       ELSE IF from_utf8_from(str, trailer_start).ok
               /\ Width(from_utf8_from(str, trailer_start).val) > trailer_cols(max_cols)
       THEN /\ truncated' = truncated \o last_good
            /\ truncPc' = "done"
            /\ UNCHANGED << header_bytes, trailer_start, last_good >>
       ELSE IF trailer_start = 0 /\ build = "debug"
       THEN TruncatePanics
       ELSE /\ last_good' = IF from_utf8_from(str, trailer_start).ok
                            THEN from_utf8_from(str, trailer_start).val
                            ELSE last_good
            /\ trailer_start' = trailer_start - 1
            /\ UNCHANGED << truncPc, header_bytes, truncated >>
    /\ UNCHANGED << str, max_cols, build, describeVars, parseVars, threadVars >>

TruncateNext == HeaderLoop \/ TrailerLoop

TruncateSpec == TruncateInit /\ [][TruncateNext]_vars

\* The function runs on a thread that is scheduled
TruncateFairSpec == TruncateSpec /\ WF_vars(TruncateNext)

\* ------------------------------------------------------------- C23

Ellipsis1 == Run(HorizontalEllipsis, 1)

HasEllipsis(text) == \E k \in 1 .. Len(text) : text[k] = Ellipsis1

EllipsisAt(text) == CHOOSE k \in 1 .. Len(text) : text[k] = Ellipsis1

BeforeEllipsis(text) == SubSeq(text, 1, EllipsisAt(text) - 1)

AfterEllipsis(text) == SubSeq(text, EllipsisAt(text) + 1, Len(text))

\* text is the start of s, up to a character boundary
IsPrefixOf(text, s) ==
    Bytes(text) <= Bytes(s) /\ from_utf8_to(s, Bytes(text)) = Utf8(text)

\* text is the end of s, from a character boundary
IsSuffixOf(text, s) ==
    Bytes(text) <= Bytes(s) /\ from_utf8_last(s, Bytes(text)) = Utf8(text)

HeaderIsPrefix ==
    /\ HasEllipsis(truncated)
    /\ IsPrefixOf(BeforeEllipsis(truncated), str)
    /\ Width(BeforeEllipsis(truncated)) <= header_cols(max_cols)

TrailerIsSuffix ==
    /\ HasEllipsis(truncated)
    /\ IsSuffixOf(AfterEllipsis(truncated), str)
    /\ Width(AfterEllipsis(truncated)) <= trailer_cols(max_cols)

\* C23: for an input wider than max_cols >= 1, truncate_string returns
\* h + ellipsis + t, h a prefix of the input of at most
\* max_cols - 1 - (max_cols - 1) / 2 columns and t a suffix of at most
\* (max_cols - 1) / 2 columns, cut on character boundaries, so that the
\* result is at most max_cols columns wide.
C23_HeaderEllipsisTrailer ==
    truncPc = "done" =>
        /\ HeaderIsPrefix
        /\ TrailerIsSuffix
        /\ Width(truncated) <= max_cols

\* ------------------------------------------------------------- C30

SlicesInsideInput ==
    /\ truncPc # "panic"
    /\ truncPc = "header" => header_bytes <= Bytes(str)
    /\ truncPc = "trailer" => (trailer_start >= 0 /\ trailer_start <= Bytes(str))

\* C30: for an input wider than max_cols >= 1, both loops of truncate_string
\* end and every slice they take is inside the input: the header loop never
\* indexes past the end of the bytes, the trailer loop never takes its start
\* below 0, whatever characters of 1 to 4 bytes, wide or of zero width, the
\* input is made of.
C30_LoopsEndInsideInput == []SlicesInsideInput /\ <>(truncPc = "done")

\* The same for the inputs of at most u16::MAX bytes
C30_UpToU16Max ==
    /\ [](Bytes(str) <= U16_MAX => SlicesInsideInput)
    /\ <>(Bytes(str) <= U16_MAX => truncPc = "done")

\* ====================================================== display_activity_desc
\* ui::display::activity::display_activity_desc and the describe_activities
\* of the processing thread. Texts are strings; TLA+ strings are ASCII, so
\* the two characters below stand for the characters that are not.

\* U+2026, the horizontal ellipsis: 1 column
Ellipsis == "~"

\* U+4E16, a CJK ideograph: 2 columns
WideChar == "#"

\* UnicodeWidthChar::width
CharWidth(c) == IF c = WideChar THEN 2 ELSE 1

\* UnicodeWidthStr::width of a text: the sum of the widths of its characters
width(s) ==
    Cardinality({ i \in 1 .. Len(s) : CharWidth(SubSeq(s, i, i)) = 1 })
      + 2 * Cardinality({ i \in 1 .. Len(s) : CharWidth(SubSeq(s, i, i)) = 2 })

\* write!(output, ..) of pieces one after the other
RECURSIVE Concat(_)
Concat(pieces) ==
    IF pieces = << >> THEN "" ELSE Head(pieces) \o Concat(Tail(pieces))

\* ------------------------------------------------ the renderers of ui::display
\* display_string, path::truncate_path and CustomDisplay::bounded_display
\* are called by display_activity_desc and defined outside of it. They are
\* modelled after section 4.7 of the specification, with the choices that
\* the renderings expected by tests::display_activity_id determine. Each
\* returns the pieces it writes.

\* The longest start of s of at most cols columns
take_cols(s, cols) ==
    SubSeq(s, 1,
           CHOOSE k \in 0 .. Len(s) :
               /\ width(SubSeq(s, 1, k)) <= cols
               /\ k < Len(s) => width(SubSeq(s, 1, k + 1)) > cols)

\* The longest end of s of at most cols columns
take_cols_end(s, cols) ==
    SubSeq(s,
           CHOOSE k \in 1 .. Len(s) + 1 :
               /\ width(SubSeq(s, k, Len(s))) <= cols
               /\ k > 1 => width(SubSeq(s, k - 1, Len(s))) > cols,
           Len(s))

\* display_string(output, s, max_cols): the string in full if it fits, else
\* its start, an ellipsis and its end
display_string(s, cols) ==
    IF width(s) <= cols THEN << s >>
    ELSE << take_cols(s, (cols - 1) \div 2),
            Ellipsis,
            take_cols_end(s, cols - 1 - (cols - 1) \div 2) >>

\* A path: whether it starts at the root, its directories, its file name
FilePath(root, dirs, file) == [root |-> root, dirs |-> dirs, file |-> file]

RECURSIVE Dirs(_)
Dirs(dirs) ==
    IF dirs = << >> THEN << >> ELSE << Head(dirs), "/" >> \o Dirs(Tail(dirs))

\* The path with its first lead and last trail directories
PathPieces(p, root, lead, trail) ==
    (IF root THEN << "/" >> ELSE << >>)
      \o Dirs(SubSeq(p.dirs, 1, lead))
      \o (IF lead + trail < Len(p.dirs) \/ (p.root /\ ~root)
          THEN << Ellipsis, "/" >> ELSE << >>)
      \o Dirs(SubSeq(p.dirs, Len(p.dirs) - trail + 1, Len(p.dirs)))
      \o << p.file >>

PathFits(p, root, lead, trail, cols) ==
    width(Concat(PathPieces(p, root, lead, trail))) <= cols

\* The largest number of last directories that fit with the root
MostTrailing(p, root, cols) ==
    CHOOSE t \in 0 .. Len(p.dirs) - 1 :
        /\ PathFits(p, root, 0, t, cols)
        /\ \A u \in t + 1 .. Len(p.dirs) - 1 : ~PathFits(p, root, 0, u, cols)

\* The largest number of first directories that fit besides
MostLeading(p, root, trail, cols) ==
    CHOOSE l \in 0 .. Len(p.dirs) - 1 - trail :
        /\ PathFits(p, root, l, trail, cols)
        /\ \A u \in l + 1 .. Len(p.dirs) - 1 - trail :
              ~PathFits(p, root, u, trail, cols)

WithLeading(p, root, trail, cols) ==
    PathPieces(p, root, MostLeading(p, root, trail, cols), trail)

WithTrailing(p, root, cols) ==
    WithLeading(p, root, MostTrailing(p, root, cols), cols)

\* path::truncate_path(p, max_cols): the path in full if it fits; else the
\* file name after an ellipsis, then the root, then the last directories,
\* then the first ones, as far as each fits; an ellipsis alone if nothing
\* else fits
truncate_path(p, cols) ==
    IF PathFits(p, p.root, Len(p.dirs), 0, cols)
    THEN PathPieces(p, p.root, Len(p.dirs), 0)
    ELSE IF ~PathFits(p, FALSE, 0, 0, cols) THEN << Ellipsis >>
    ELSE WithTrailing(p, p.root /\ PathFits(p, TRUE, 0, 0, cols), cols)

\* A C++ entity: the scopes of its name, its unqualified id, and the
\* parameters of a function
Entity(scopes, name, parameters) ==
    [scopes |-> scopes, name |-> name, parameters |-> parameters]

RECURSIVE Scopes(_)
Scopes(scopes) ==
    IF scopes = << >> THEN << >>
    ELSE << Head(scopes), "::" >> \o Scopes(Tail(scopes))

Parameters(text) == IF text = "" THEN << >> ELSE << text >>

FullEntity(e) == Scopes(e.scopes) \o << e.name >> \o Parameters(e.parameters)

\* The scopes and the parameters elided
UnqualifiedId(e) ==
    << Ellipsis, "::", e.name >>
      \o Parameters(IF e.parameters = "" THEN "" ELSE Ellipsis)

\* CustomDisplay::bounded_display(max_cols): the entity in full if it fits,
\* else its unqualified id, else an ellipsis
bounded_display(e, cols) ==
    IF width(Concat(FullEntity(e))) <= cols THEN FullEntity(e)
    ELSE IF width(Concat(UnqualifiedId(e))) <= cols THEN UnqualifiedId(e)
    ELSE << Ellipsis >>

\* ------------------------------------------------------------ the trace

Activity(name, arg) == [name |-> name, arg |-> arg]

\* The activities tests::display_activity_id displays (the demangled symbol
\* shortened), an unnamed loop, and a string with wide characters
Trace ==
    << Activity("ExecuteCompiler", << "Nothing" >>),
       Activity("RunPass", << "String", "Loop Pass Manager" >>),
       Activity("Source",
                << "FilePath",
                   FilePath(TRUE, << "usr", "include" >>, "features.h") >>),
       Activity("ParseClass",
                << "CppEntity", Entity(<< "std" >>, "char_traits", "") >>),
       Activity("LoopUnrollPass",
                << "Demangled",
                   "std::vector<std::bitset<36> >::_M_realloc_insert<>(&&)" >>),
       Activity("PromotePass", << "Mangled", "__cxx_global_var_init" >>),
       Activity("SROAPass",
                << "Parsed",
                   Entity(<< "TrackFittingGainMatrixSmoother", "Smooth" >>,
                          "test_method", "()") >>),
       Activity("RunLoopPass", << "UnnamedLoop" >>),
       Activity("OptFunction", << "String", "a#b##c d#e" >>) >>

\* Largest column budget asked for
MaxDisplayCols == 64

\* Largest number of activities described at once
MaxRequested == 2

\* ---------------------------------------------------- display_activity_desc

\* The test without the columns of the parentheses and of the ellipsis
not_enough_cols_for_name(cols, name, has_argument) == cols < width(name)

\* max_cols < activity_name.width() + 3 * (has_argument as usize)
not_enough_cols(cols, name, has_argument) ==
    cols < width(name) + 3 * (IF has_argument THEN 1 ELSE 0)

\* The budget without the columns of the parentheses
argument_cols_with_parentheses(cols, name) ==
    (cols - (width(name) % (U16_MAX + 1))) % (U16_MAX + 1)

\* max_cols -= activity_name.width() as u16 + 2, on u16
argument_cols(cols, name) ==
    (cols - ((width(name) % (U16_MAX + 1)) + 2)) % (U16_MAX + 1)

\* match activity_arg { .. }: the pieces written between the parentheses
argument(arg, cols) ==
    IF arg[1] = "UnnamedLoop" THEN display_string("<unnamed loop>", cols)
    ELSE IF arg[1] \in {"String", "Demangled", "Mangled"}
    THEN display_string(arg[2], cols)
    ELSE IF arg[1] = "FilePath" THEN truncate_path(arg[2], cols)
    ELSE IF arg[1] \in {"CppEntity", "Parsed"} THEN bounded_display(arg[2], cols)
    ELSE << "unreachable!()" >>

Written(returned_, output_) == [returned |-> returned_, output |-> output_]

InParentheses(name, pieces) ==
    IF pieces = << "unreachable!()" >> THEN Written(<< "panic" >>, name \o "(")
    ELSE Written(<< "Ok" >>, name \o "(" \o Concat(pieces) \o ")")

\* display_activity_desc(output, activity_id, activity_arg, max_cols) on an
\* empty Vec: what it returns and what the output holds then
display_activity_desc(activity, cols) ==
    IF not_enough_cols(cols, activity.name, activity.arg # << "Nothing" >>)
    THEN Written(<< "NotEnoughCols", cols >>, "")
    ELSE IF activity.arg = << "Nothing" >> THEN Written(<< "Ok" >>, activity.name)
    ELSE InParentheses(activity.name,
                       argument(activity.arg, argument_cols(cols, activity.name)))

\* ------------------------------------------------------ describe_activities

\* The closure of describe_activities on what display_activity_desc did
Described(written) ==
    IF written.returned = << "Ok" >> THEN written.output
    ELSE IF written.returned = << "panic" >> THEN "panic"
    ELSE written.output \o Ellipsis

\* A closure that leaves the output as it is on NotEnoughCols
DescribedOrEmpty(written) ==
    IF written.returned = << "panic" >> THEN "panic" ELSE written.output

\* The strings of a request answered without the ellipsis
describe_activities_or_empty(ids, cols) ==
    [k \in 1 .. Len(ids) |-> DescribedOrEmpty(display_activity_desc(Trace[ids[k]], cols))]

\* fn describe_activities(trace, activities, max_cols)
describe_activities(ids, cols) ==
    [k \in 1 .. Len(ids) |-> Described(display_activity_desc(Trace[ids[k]], cols))]

\* ---------------------------------------------------------------- actions

RequestLists ==
    UNION { [1 .. n -> 1 .. Len(Trace)] : n \in 1 .. MaxRequested }

DisplayInit ==
    /\ NoParse
    /\ NoThread
    /\ NoTruncate
    /\ requested \in RequestLists
    /\ max_cols \in 0 .. MaxDisplayCols
    /\ called = "none"
    /\ output = ""
    /\ returned = << "none" >>

\* display_activity_desc(&mut Vec::new(), id, arg, max_cols)
DisplayActivityDesc ==
    /\ called = "none"
    /\ Len(requested) = 1
    /\ called' = "display_activity_desc"
    /\ returned' = display_activity_desc(Trace[requested[1]], max_cols).returned
    /\ output' = display_activity_desc(Trace[requested[1]], max_cols).output
    /\ UNCHANGED << requested, max_cols, truncateVars, parseVars, threadVars >>

\* describe_activities(&trace, activities, max_cols)
DescribeRequested ==
    /\ called = "none"
    /\ called' = "describe_activities"
    /\ returned' = IF \E k \in 1 .. Len(requested) :
                        describe_activities(requested, max_cols)[k] = "panic"
                   THEN << "panic" >> ELSE << "Ok" >>
    /\ output' = describe_activities(requested, max_cols)
    /\ UNCHANGED << requested, max_cols, truncateVars, parseVars, threadVars >>

DisplayNext == DisplayActivityDesc \/ DescribeRequested

DisplaySpec == DisplayInit /\ [][DisplayNext]_vars

\* The renderings tests::display_activity_id expects, by index in Trace and
\* by max_cols; the empty text where it expects NotEnoughCols
TestRenderings ==
    { << 1, 14, "" >>, << 1, 15, "ExecuteCompiler" >>,
      << 2, 9, "" >>, << 2, 10, "RunPass(~)" >>,
      << 2, 25, "RunPass(Loop Pa~ Manager)" >>,
      << 2, 26, "RunPass(Loop Pass Manager)" >>,
      << 3, 8, "" >>, << 3, 9, "Source(~)" >>, << 3, 19, "Source(~)" >>,
      << 3, 20, "Source(~/features.h)" >>,
      << 3, 21, "Source(/~/features.h)" >>,
      << 3, 24, "Source(/~/features.h)" >>,
      << 3, 25, "Source(/usr/~/features.h)" >>,
      << 3, 28, "Source(/usr/~/features.h)" >>,
      << 3, 29, "Source(/~/include/features.h)" >>,
      << 3, 30, "Source(/~/include/features.h)" >>,
      << 3, 31, "Source(/usr/include/features.h)" >>,
      << 4, 12, "" >>, << 4, 13, "ParseClass(~)" >>, << 4, 25, "ParseClass(~)" >>,
      << 4, 26, "ParseClass(~::char_traits)" >>,
      << 4, 27, "ParseClass(~::char_traits)" >>,
      << 4, 28, "ParseClass(std::char_traits)" >>,
      << 5, 16, "" >>, << 5, 17, "LoopUnrollPass(~)" >>,
      << 6, 13, "" >>, << 6, 14, "PromotePass(~)" >>,
      << 6, 33, "PromotePass(__cxx_glo~l_var_init)" >>,
      << 6, 34, "PromotePass(__cxx_global_var_init)" >>,
      << 7, 10, "" >>, << 7, 11, "SROAPass(~)" >>, << 7, 24, "SROAPass(~)" >>,
      << 7, 25, "SROAPass(~::test_method~)" >>,
      << 7, 62, "SROAPass(~::test_method~)" >>,
      << 7, 63, "SROAPass(TrackFittingGainMatrixSmoother::Smooth::test_method())" >> }

\* The model writes what each test expects
ExpectedByTests ==
    \A t \in TestRenderings :
        /\ display_activity_desc(Trace[t[1]], t[2]).output = t[3]
        /\ t[3] = "" <=>
             display_activity_desc(Trace[t[1]], t[2]).returned
               = << "NotEnoughCols", t[2] >>

\* ------------------------------------------------------------- C21

\* The activity display_activity_desc was called on
Displayed == Trace[requested[1]]

HasArgument == Displayed.arg # << "Nothing" >>

\* C21: display_activity_desc returns Err(NotEnoughCols(max_cols)) exactly
\* when max_cols is below the width of the activity name plus 3 for an
\* activity with an argument, below the width of the name for one without;
\* nothing is written then, and in every other case the name is written in
\* full.
C21_NotEnoughColsExactly ==
    called = "display_activity_desc" =>
        /\ returned = << "NotEnoughCols", max_cols >>
             <=> max_cols < width(Displayed.name) + (IF HasArgument THEN 3 ELSE 0)
        /\ returned = << "NotEnoughCols", max_cols >> => output = ""
        /\ returned # << "NotEnoughCols", max_cols >> =>
              /\ returned = << "Ok" >>
              /\ SubSeq(output, 1, Len(Displayed.name)) = Displayed.name

\* C21 witness: the name alone would fit, the parentheses and the ellipsis
\* of the argument do not, and nothing was written.
C21_Witness ==
    /\ called = "display_activity_desc"
    /\ HasArgument
    /\ max_cols >= width(Displayed.name)
    /\ returned = << "NotEnoughCols", max_cols >>
    /\ output = ""

\* ------------------------------------------------------------- C22

\* What is written between the parentheses
Inside == SubSeq(output, Len(Displayed.name) + 2, Len(output) - 1)

HasEllipsisChar(text) == \E i \in 1 .. Len(text) : SubSeq(text, i, i) = Ellipsis

\* C22: whenever display_activity_desc returns Ok the text written is at
\* most max_cols columns wide, and the argument is rendered between
\* parentheses with the budget max_cols - width(name) - 2, which is at least
\* 1.
C22_WidthHonored ==
    (called = "display_activity_desc" /\ returned = << "Ok" >>) =>
        /\ width(output) <= max_cols
        /\ HasArgument =>
              /\ max_cols - width(Displayed.name) - 2 >= 1
              /\ SubSeq(output, 1, Len(Displayed.name) + 1) = Displayed.name \o "("
              /\ SubSeq(output, Len(output), Len(output)) = ")"
              /\ Inside = Concat(argument(Displayed.arg,
                                          max_cols - width(Displayed.name) - 2))
              /\ width(Inside) <= max_cols - width(Displayed.name) - 2

\* C22 witness: an argument cut to its budget, with wide characters, fills
\* max_cols to the last column.
C22_Witness ==
    /\ called = "display_activity_desc"
    /\ returned = << "Ok" >>
    /\ HasArgument
    /\ HasEllipsisChar(Inside)
    /\ \E i \in 1 .. Len(Inside) : SubSeq(Inside, i, i) = WideChar
    /\ width(output) = max_cols

\* ------------------------------------------------------------- C26

\* C26: describe_activities returns one string for each requested id, in the
\* order of the request: what display_activity_desc writes for the activity
\* at max_cols when it returns Ok, an ellipsis alone when it returns
\* NotEnoughCols; it does not panic.
C26_OneDescriptionEach ==
    called = "describe_activities" =>
        /\ returned = << "Ok" >>
        /\ Len(output) = Len(requested)
        /\ \A k \in 1 .. Len(requested) :
              IF display_activity_desc(Trace[requested[k]], max_cols).returned
                   = << "Ok" >>
              THEN output[k]
                     = display_activity_desc(Trace[requested[k]], max_cols).output
              ELSE /\ display_activity_desc(Trace[requested[k]], max_cols).returned
                        = << "NotEnoughCols", max_cols >>
                   /\ output[k] = Ellipsis

\* C26 witness: of two activities, the first does not fit and is described
\* by an ellipsis, the second is described with its argument.
C26_Witness ==
    /\ called = "describe_activities"
    /\ Len(requested) = 2
    /\ output[1] = Ellipsis
    /\ output[2] # Ellipsis
    /\ HasEllipsisChar(output[2])
    /\ requested[1] # requested[2]

\* ------------------------------------------------------------- C24

\* The pieces display_activity_desc writes between the parentheses at a
\* budget of cols columns
ArgumentAt(cols) ==
    argument(Displayed.arg, argument_cols(cols, Displayed.name))

\* Path components, scope names and identifiers among pieces
Tokens(pieces) ==
    { pieces[i] : i \in 1 .. Len(pieces) } \ { Ellipsis, "/", "::" }

IsStartOf(s, text) == Len(s) <= Len(text) /\ SubSeq(text, 1, Len(s)) = s

IsEndOf(s, text) ==
    Len(s) <= Len(text) /\ SubSeq(text, Len(text) - Len(s) + 1, Len(text)) = s

\* A string cut in the middle keeps less of the same start and end
StringReduced(small, large) ==
    IF Len(small) = 1 THEN small = large
    ELSE /\ IsStartOf(small[1], large[1])
         /\ IsEndOf(small[3], large[Len(large)])

IsText == Displayed.arg[1] \in {"String", "Demangled", "Mangled", "UnnamedLoop"}

Reduced(small, large) ==
    IF IsText THEN StringReduced(small, large)
    ELSE Tokens(small) \subseteq Tokens(large)

Fits(cols) == ~not_enough_cols(cols, Displayed.name, HasArgument)

\* C24: for budgets N1 <= N2 at which the display succeeds, the rendering at
\* N1 is a reduction of the rendering at N2: no path component, scope name
\* or identifier that is absent from the rendering at N2 appears in the
\* rendering at N1.
C24_NoNewTokens ==
    (called = "display_activity_desc" /\ returned = << "Ok" >> /\ HasArgument) =>
        /\ Inside = Concat(ArgumentAt(max_cols))
        /\ \A N2 \in max_cols .. MaxDisplayCols :
              Fits(N2) => Reduced(ArgumentAt(max_cols), ArgumentAt(N2))

\* The same for every argument that is not a file path
C24_NoNewTokensButPaths ==
    (called = "display_activity_desc" /\ returned = << "Ok" >> /\ HasArgument
       /\ Displayed.arg[1] # "FilePath") =>
        /\ Inside = Concat(ArgumentAt(max_cols))
        /\ \A N2 \in max_cols .. MaxDisplayCols :
              Fits(N2) => Reduced(ArgumentAt(max_cols), ArgumentAt(N2))

\* ------------------------------------------------------------- C25

\* The unqualified id as it may be written: with its parameters or with an
\* ellipsis for them
WrittenIds(e) ==
    { << e.name >> \o Parameters(e.parameters),
      << e.name >> \o Parameters(IF e.parameters = "" THEN "" ELSE Ellipsis) }

\* The forms of a scoped name, in the order of their use: a::b::c::Name,
\* a::...::Name, ...::Name, and the ellipsis alone
ScopeForms(e, id) ==
    << Scopes(e.scopes) \o id,
       IF Len(e.scopes) >= 2
       THEN << e.scopes[1], "::", Ellipsis, "::" >> \o id
       ELSE Scopes(e.scopes) \o id,
       << Ellipsis, "::" >> \o id,
       << Ellipsis >> >>

IsEntity == Displayed.arg[1] \in {"CppEntity", "Parsed"}

\* C25: a scoped name that does not fit its budget is reduced in the order
\* a::b::c::Name, a::...::Name, ...::Name, ellipsis; a later form is written
\* only at budgets where every earlier form is too wide.
C25_ScopesReducedInOrder ==
    (called = "display_activity_desc" /\ returned = << "Ok" >> /\ IsEntity) =>
        \E id \in WrittenIds(Displayed.arg[2]) :
            \E k \in 1 .. 4 :
                /\ Inside = Concat(ScopeForms(Displayed.arg[2], id)[k])
                /\ \A j \in 1 .. k - 1 :
                      width(Concat(ScopeForms(Displayed.arg[2], id)[j]))
                        > max_cols - width(Displayed.name) - 2

\* The same for the names of one scope, which have no inner scope to elide
C25_OneScopeReducedInOrder ==
    (called = "display_activity_desc" /\ returned = << "Ok" >> /\ IsEntity
       /\ Len(Displayed.arg[2].scopes) = 1) =>
        \E id \in WrittenIds(Displayed.arg[2]) :
            \E k \in 1 .. 4 :
                /\ Inside = Concat(ScopeForms(Displayed.arg[2], id)[k])
                /\ \A j \in 1 .. k - 1 :
                      width(Concat(ScopeForms(Displayed.arg[2], id)[j]))
                        > max_cols - width(Displayed.name) - 2

=============================================================================
